---------------------------- MODULE Spec2Model ----------------------------
(***************************************************************************)
(* Model of the uvb76_gen encode/decode pipeline (src/uvb76_gen/crypto.py). *)
(*                                                                         *)
(* Strings are sequences of code points (ord values): "A" is <<65>>, the   *)
(* group "00123" is <<48,48,49,50,51>>.  Unsigned 32-bit words are sets of *)
(* bit positions (0 = least significant), so that shifts, masks and xor    *)
(* keep their width.                                                       *)
(***************************************************************************)
EXTENDS Integers, Sequences, FiniteSets, TLC

(***************************************************************************)
(* Bounds of the model.                                                    *)
(***************************************************************************)
MaxTextLen == 4
MaxKeyLen == 2
MaxSyms == 4
MaxTokens == 2
MaxPieces == 6
MaxGroups == 3
\* outputs drawn from one generator that is watched on its own
MaxDraws == 3
\* groups of sentinels appended to a group list
MaxAppended == 2

(***************************************************************************)
(* Generic sequence helpers.                                               *)
(***************************************************************************)
SeqsUpTo(S, n) == UNION {[1..k -> S] : k \in 0..n}

(***************************************************************************)
(* str.upper() on the code points the model uses: ASCII, the Cyrillic      *)
(* letters of the Russian digit words, and U+00DF, whose upper case is     *)
(* the two letters "SS".                                                   *)
(***************************************************************************)
UpperOf(ch) ==
    IF ch \in 97..122 THEN <<ch - 32>>
    ELSE IF ch \in 1072..1103 THEN <<ch - 32>>
    ELSE IF ch = 223 THEN <<83, 83>>
    ELSE <<ch>>

RECURSIVE upper(_)
upper(s) ==
    IF s = <<>> THEN <<>>
    ELSE IF Len(s) = 1 THEN UpperOf(s[1])
    ELSE upper(SubSeq(s, 1, Len(s) \div 2))
            \o upper(SubSeq(s, Len(s) \div 2 + 1, Len(s)))

(***************************************************************************)
(* _AZ_RE.sub("", s): drop every character that is not in A-Z.             *)
(***************************************************************************)
RECURSIVE AZ_RE_sub(_)
AZ_RE_sub(s) ==
    IF s = <<>> THEN <<>>
    ELSE IF Head(s) \in 65..90 THEN <<Head(s)>> \o AZ_RE_sub(Tail(s))
         ELSE AZ_RE_sub(Tail(s))

\* variant: the characters outside A-Z are dropped before the upper-casing
sanitize_plaintext_filter_first(text) == upper(AZ_RE_sub(text))

sanitize_plaintext(text) == AZ_RE_sub(upper(text))

(***************************************************************************)
(* sanitize_key raises when nothing is left; the result is a record that   *)
(* says whether it raised.                                                 *)
(***************************************************************************)
\* variant: the key is filtered as it was written, without str.upper
sanitize_key_as_written(key) ==
    LET k == AZ_RE_sub(key)
    IN  IF Len(k) = 0 THEN [ok |-> FALSE, k |-> <<>>]
        ELSE [ok |-> TRUE, k |-> k]

sanitize_key(key) ==
    LET k == AZ_RE_sub(upper(key))
    IN  IF Len(k) = 0 THEN [ok |-> FALSE, k |-> <<>>]
        ELSE [ok |-> TRUE, k |-> k]

letters_to_nums(text_az) == [i \in 1..Len(text_az) |-> text_az[i] - 65]

nums_to_letters(nums) == [i \in 1..Len(nums) |-> 65 + nums[i]]

(***************************************************************************)
(* Vigenere layer.  Python indexes from 0: key[i % len(key)] for the i-th  *)
(* symbol is key[((i-1) % Len(key)) + 1] here.                             *)
(***************************************************************************)
\* variant: the sum is reduced modulo 25
vigenere_encrypt_mod25(plain, key) ==
    [i \in 1..Len(plain) |-> (plain[i] + key[((i - 1) % Len(key)) + 1]) % 25]

vigenere_encrypt(plain, key) ==
    [i \in 1..Len(plain) |-> (plain[i] + key[((i - 1) % Len(key)) + 1]) % 26]

\* variant: the key index is not reduced modulo the key length
vigenere_decrypt_nocycle(cipher, key) ==
    [i \in 1..Len(cipher) |->
        (cipher[i] - key[IF i <= Len(key) THEN i ELSE Len(key)] + 26) % 26]

vigenere_decrypt(cipher, key) ==
    [i \in 1..Len(cipher) |-> (cipher[i] - key[((i - 1) % Len(key)) + 1] + 26) % 26]

(***************************************************************************)
(* 32-bit words as sets of bit positions.                                  *)
(***************************************************************************)
RECURSIVE BitsOf(_, _)
BitsOf(n, pos) ==
    IF n = 0 THEN {}
    ELSE (IF n % 2 = 1 THEN {pos} ELSE {}) \cup BitsOf(n \div 2, pos + 1)

\* the word hi * 2^16 + lo
U32(hi, lo) == BitsOf(lo, 0) \cup BitsOf(hi, 16)

MASK32 == 0..31

Shl(x, n) == {i + n : i \in x}
Shr(x, n) == {i - n : i \in {j \in x : j >= n}}
And(x, m) == x \cap m
Xor(x, y) == (x \ y) \cup (y \ x)

RECURSIVE Pow2Mod(_, _)
Pow2Mod(i, m) == IF i = 0 THEN 1 % m ELSE (2 * Pow2Mod(i - 1, m)) % m

RECURSIVE SumMod(_, _)
SumMod(x, m) ==
    IF x = {} THEN 0
    ELSE LET i == CHOOSE j \in x : TRUE
         IN  (Pow2Mod(i, m) + SumMod(x \ {i}, m)) % m

\* x % m for a word x
WordMod(x, m) == SumMod(x, m)

(***************************************************************************)
(* _seed32: the first four bytes of SHA-256 of the string, big endian.     *)
(* The table holds the digests of every sanitized key the model can form.  *)
(***************************************************************************)
Seed32Table ==
    (<<>>           :> U32(58288, 50242)) @@
    (<<66>>         :> U32(57214, 28901)) @@
    (<<90>>         :> U32(48110, 48519)) @@
    (<<66, 66>>     :> U32(64616, 27697)) @@
    (<<66, 90>>     :> U32(40962, 40648)) @@
    (<<90, 66>>     :> U32(692, 36115)) @@
    (<<90, 90>>     :> U32(2457, 34725)) @@
    (<<66, 66, 66>> :> U32(56539, 28737)) @@
    (<<66, 66, 90>> :> U32(11496, 24855)) @@
    (<<66, 90, 66>> :> U32(18888, 12822)) @@
    (<<66, 90, 90>> :> U32(48233, 35381)) @@
    (<<90, 66, 66>> :> U32(22885, 25992)) @@
    (<<90, 66, 90>> :> U32(14485, 12057)) @@
    (<<90, 90, 66>> :> U32(9632, 39406)) @@
    (<<90, 90, 90>> :> U32(29171, 59500))

seed32(s) == Seed32Table[s]

(***************************************************************************)
(* xorshift32: the generator object is its state x.                        *)
(*   xorshift32(seed)  creates it:   x = seed & 0xFFFFFFFF                 *)
(*   xorshift32_next(x) is the state after one trip round the loop, which  *)
(*   is also the value yielded (x & 0xFFFFFFFF).                           *)
(***************************************************************************)
xorshift32(seed) == And(seed, MASK32)

xorshift32_next(x) ==
    LET x1 == Xor(x, And(Shl(x, 13), MASK32))
        x2 == Xor(x1, And(Shr(x1, 17), MASK32))
        x3 == Xor(x2, And(Shl(x2, 5), MASK32))
    IN  x3

xorshift32_yield(x) == And(x, MASK32)

(***************************************************************************)
(* Text of integers: str(n), str.zfill, str.strip and int(s, 10).          *)
(***************************************************************************)
RECURSIVE DecDigits(_)
DecDigits(n) ==
    IF n < 10 THEN <<48 + n>> ELSE DecDigits(n \div 10) \o <<48 + (n % 10)>>

str(n) == IF n < 0 THEN <<45>> \o DecDigits(-n) ELSE DecDigits(n)

Zeros(n) == [i \in 1..n |-> 48]

\* str.zfill(width): zeros go after a leading sign
zfill(s, width) ==
    IF Len(s) >= width THEN s
    ELSE IF Len(s) > 0 /\ s[1] \in {43, 45}
         THEN <<s[1]>> \o Zeros(width - Len(s)) \o Tail(s)
         ELSE Zeros(width - Len(s)) \o s

\* the characters str.strip() and int() treat as whitespace (ASCII range)
IsSpace(ch) == ch \in (9..13) \cup (28..32)

RECURSIVE lstrip(_)
lstrip(s) == IF s # <<>> /\ IsSpace(Head(s)) THEN lstrip(Tail(s)) ELSE s

RECURSIVE rstrip(_)
rstrip(s) ==
    IF s # <<>> /\ IsSpace(s[Len(s)]) THEN rstrip(SubSeq(s, 1, Len(s) - 1)) ELSE s

strip(s) == rstrip(lstrip(s))

IsDigit(ch) == ch \in 48..57

RECURSIVE DigitsValue(_, _)
DigitsValue(s, acc) ==
    IF s = <<>> THEN acc
    ELSE IF Head(s) = 95 THEN DigitsValue(Tail(s), acc)
         ELSE DigitsValue(Tail(s), acc * 10 + (Head(s) - 48))

\* variant: parsing stops at the first character that is not a digit
RECURSIVE LeadingDigits(_)
LeadingDigits(s) ==
    IF s # <<>> /\ IsDigit(Head(s)) THEN <<Head(s)>> \o LeadingDigits(Tail(s)) ELSE <<>>

int10_prefix(s) ==
    LET d == LeadingDigits(strip(s))
    IN  IF d # <<>> THEN [ok |-> TRUE, val |-> DigitsValue(d, 0)]
        ELSE [ok |-> FALSE, val |-> 0]

(***************************************************************************)
(* int(s, 10): surrounding whitespace is ignored, one leading sign is      *)
(* allowed, the rest is decimal digits with single underscores allowed     *)
(* between digits.  ok = FALSE stands for ValueError.                      *)
(***************************************************************************)
int10(s) ==
    LET t    == strip(s)
        neg  == t # <<>> /\ t[1] = 45
        body == IF t # <<>> /\ t[1] \in {43, 45} THEN Tail(t) ELSE t
        wellFormed ==
            /\ body # <<>>
            /\ IsDigit(body[1])
            /\ IsDigit(body[Len(body)])
            /\ \A i \in 1..Len(body) : IsDigit(body[i]) \/ body[i] = 95
            /\ \A i \in 1..(Len(body) - 1) : ~(body[i] = 95 /\ body[i + 1] = 95)
    IN  IF wellFormed
        THEN [ok |-> TRUE,
              val |-> IF neg THEN 0 - DigitsValue(body, 0) ELSE DigitsValue(body, 0)]
        ELSE [ok |-> FALSE, val |-> 0]

(***************************************************************************)
(* Base-27 packing of a triplet and its inverse.                           *)
(***************************************************************************)
pad == 26

\* variant: the triplet is packed in base 26
pack_base26(a, b, c) == a * 26 * 26 + b * 26 + c

pack(a, b, c) == a * 27 * 27 + b * 27 + c

\* variant: the middle digit is not reduced modulo 27
unpack_no_mod(n) == <<n \div (27 * 27), n \div 27, n % 27>>

unpack(n) == <<n \div (27 * 27), (n \div 27) % 27, n % 27>>

\* variant: an offset range one too wide
OffsetModulus_wide == 80318 + 1

OffsetModulus == 80318

MaxTriplet == 19682

\* variant: sentinels are appended to a list that is a multiple of 3 long as well
pad_nums_always(nums) ==
    nums \o [idx \in 1..(3 - (Len(nums) % 3)) |-> pad]

\* while (len(nums) % 3) != 0: nums.append(pad)
RECURSIVE pad_nums(_)
pad_nums(nums) ==
    IF (Len(nums) % 3) # 0 THEN pad_nums(Append(nums, pad)) ELSE nums

\* variant: "if" instead of "while", one sentinel removed at most
strip_padding_once(out) ==
    IF Len(out) > 0 /\ out[Len(out)] = 26 THEN SubSeq(out, 1, Len(out) - 1) ELSE out

\* variant: every sentinel removed, wherever it is
RECURSIVE strip_padding_all(_)
strip_padding_all(out) ==
    IF out = <<>> THEN <<>>
    ELSE IF Head(out) = 26 THEN strip_padding_all(Tail(out))
         ELSE <<Head(out)>> \o strip_padding_all(Tail(out))

\* variant: no more than the two sentinels encode_groups can append are removed
strip_padding_two(out) == strip_padding_once(strip_padding_once(out))

\* while len(out) > 0 and out[-1] == 26: out.pop()
RECURSIVE strip_padding(_)
strip_padding(out) ==
    IF Len(out) > 0 /\ out[Len(out)] = 26
    THEN strip_padding(SubSeq(out, 1, Len(out) - 1))
    ELSE out

(***************************************************************************)
(* russian.py.  RUS_DIGIT_WORD maps the digit characters "0".."9" to the   *)
(* Russian words for zero to nine, written here as their code points       *)
(* (U+0410 is 1040); RUS_WORD_DIGIT is the reverse map.                    *)
(***************************************************************************)
RUS_DIGIT_WORD ==
    [d \in 48..57 |->
        CASE d = 48 -> <<1053, 1054, 1051, 1068>>
          [] d = 49 -> <<1054, 1044, 1048, 1053>>
          [] d = 50 -> <<1044, 1042, 1040>>
          [] d = 51 -> <<1058, 1056, 1048>>
          [] d = 52 -> <<1063, 1045, 1058, 1067, 1056, 1045>>
          [] d = 53 -> <<1055, 1071, 1058, 1068>>
          [] d = 54 -> <<1064, 1045, 1057, 1058, 1068>>
          [] d = 55 -> <<1057, 1045, 1052, 1068>>
          [] d = 56 -> <<1042, 1054, 1057, 1045, 1052, 1068>>
          [] d = 57 -> <<1044, 1045, 1042, 1071, 1058, 1068>>]

RUS_WORD_DIGIT ==
    [w \in {RUS_DIGIT_WORD[d] : d \in 48..57} |->
        CHOOSE d \in 48..57 : RUS_DIGIT_WORD[d] = w]

(***************************************************************************)
(* re.findall(r"\d", text) on the code points the model uses: the ASCII    *)
(* digits.                                                                 *)
(***************************************************************************)
findall_digits(text) == SelectSeq(text, IsDigit)

(***************************************************************************)
(* _TOKEN_SPLIT_RE = [^\w]+ : a word character is a letter (here ASCII,    *)
(* U+00DF or Cyrillic), a digit or the underscore.  The split leaves the   *)
(* maximal runs of word characters; the code drops the empty pieces.       *)
(***************************************************************************)
IsWordChar(ch) ==
    ch \in (48..57) \cup (65..90) \cup (97..122) \cup {95, 223} \cup (1040..1103)

\* the elements of a set of numbers, smallest first
Ascending(S) ==
    [k \in 1..Cardinality(S) |->
        CHOOSE x \in S : Cardinality({y \in S : y < x}) = k - 1]

\* the maximal runs of s over the places P (the places of the characters
\* of one class), first to last: the k-th run goes from the k-th place
\* where a run starts to the k-th place where a run ends
Runs(s, P) ==
    LET starts == Ascending({i \in P : (i - 1) \notin P})
        ends   == Ascending({i \in P : (i + 1) \notin P})
    IN  [k \in 1..Len(starts) |-> SubSeq(s, starts[k], ends[k])]

TOKEN_SPLIT(s) == Runs(s, {i \in 1..Len(s) : IsWordChar(s[i])})

TrailingDigits == "Trailing digits not forming a complete 5-digit group."
TrailingWords == "Trailing Russian digit words not forming a complete 5-digit group."
NoGroupsParsed == "No groups could be parsed from input."

(***************************************************************************)
(* parse_groups_maybe_ru, lines 274-285: the loop over the literal digits. *)
(***************************************************************************)
RECURSIVE raw_digits_loop(_, _, _)
raw_digits_loop(raw_digits, buf, groups) ==
    IF raw_digits = <<>> THEN [buf |-> buf, groups |-> groups]
    ELSE LET b == Append(buf, Head(raw_digits))
         IN  IF Len(b) = 5 THEN raw_digits_loop(Tail(raw_digits), <<>>, Append(groups, b))
             ELSE raw_digits_loop(Tail(raw_digits), b, groups)

(***************************************************************************)
(* parse_groups_maybe_ru, lines 292-299: the loop over the tokens.         *)
(***************************************************************************)
RECURSIVE tokens_loop(_, _, _)
tokens_loop(tokens, digits_buf, groups_out) ==
    IF tokens = <<>> THEN [buf |-> digits_buf, groups |-> groups_out]
    ELSE LET t == Head(tokens)
             b == IF t \in DOMAIN RUS_WORD_DIGIT
                  THEN Append(digits_buf, RUS_WORD_DIGIT[t])
                  ELSE digits_buf
         IN  IF Len(b) >= 5
             THEN tokens_loop(Tail(tokens), SubSeq(b, 6, Len(b)),
                              Append(groups_out, SubSeq(b, 1, 5)))
             ELSE tokens_loop(Tail(tokens), b, groups_out)

\* variant: the literal digits left over after the last whole group are
\* dropped without an error
parse_groups_maybe_ru_drop_trailing(text) ==
    LET raw_digits == findall_digits(text)
    IN  IF Len(raw_digits) >= 5
        THEN [ok |-> TRUE, value |-> raw_digits_loop(raw_digits, <<>>, <<>>).groups,
              error |-> ""]
        ELSE LET r == tokens_loop(TOKEN_SPLIT(upper(text)), <<>>, <<>>)
             IN  IF r.buf # <<>> THEN [ok |-> FALSE, value |-> <<>>, error |-> TrailingWords]
                 ELSE IF r.groups = <<>>
                      THEN [ok |-> FALSE, value |-> <<>>, error |-> NoGroupsParsed]
                 ELSE [ok |-> TRUE, value |-> r.groups, error |-> ""]

(***************************************************************************)
(* parse_groups_maybe_ru, lines 273-306.  The result is a record that says *)
(* whether the call returned a list or raised ValueError.                  *)
(***************************************************************************)
parse_groups_maybe_ru(text) ==
    LET raw_digits == findall_digits(text)
    IN  IF Len(raw_digits) >= 5
        THEN LET r == raw_digits_loop(raw_digits, <<>>, <<>>)
             IN  IF r.buf # <<>>
                 THEN [ok |-> FALSE, value |-> <<>>, error |-> TrailingDigits]
                 ELSE [ok |-> TRUE, value |-> r.groups, error |-> ""]
        ELSE LET r == tokens_loop(TOKEN_SPLIT(upper(text)), <<>>, <<>>)
             IN  IF r.buf # <<>> THEN [ok |-> FALSE, value |-> <<>>, error |-> TrailingWords]
                 ELSE IF r.groups = <<>>
                      THEN [ok |-> FALSE, value |-> <<>>, error |-> NoGroupsParsed]
                 ELSE [ok |-> TRUE, value |-> r.groups, error |-> ""]

(***************************************************************************)
(* sep.join(parts) for a list of strings.                                  *)
(***************************************************************************)
RECURSIVE join(_, _)
join(sep, parts) ==
    IF parts = <<>> THEN <<>>
    ELSE IF Len(parts) = 1 THEN parts[1]
    ELSE parts[1] \o sep \o join(sep, Tail(parts))

(***************************************************************************)
(* The slices groups[i : i + per_line] for i in range(0, len(groups),      *)
(* per_line), per_line >= 1: the last slice may be shorter.                *)
(***************************************************************************)
RECURSIVE slices(_, _)
slices(groups, per_line) ==
    IF groups = <<>> THEN <<>>
    ELSE IF Len(groups) <= per_line THEN <<groups>>
    ELSE <<SubSeq(groups, 1, per_line)>>
            \o slices(SubSeq(groups, per_line + 1, Len(groups)), per_line)

\* variant: the digit words of a group are joined without a separator
format_group_ru_fused(group) ==
    LET digits == SelectSeq(strip(group), IsDigit)
        tokens == [idx \in 1..Len(digits) |-> RUS_DIGIT_WORD[digits[idx]]]
    IN  join(<<>>, tokens) \o <<46>>

(***************************************************************************)
(* format_group_ru, lines 207-209: the word of every digit of the group,   *)
(* joined by ". " and closed by ".".                                       *)
(***************************************************************************)
format_group_ru(group) ==
    LET digits == SelectSeq(strip(group), IsDigit)
        tokens == [idx \in 1..Len(digits) |-> RUS_DIGIT_WORD[digits[idx]]]
    IN  join(<<46, 32>>, tokens) \o <<46>>

PerLineError == "per_line must be >= 1"
RangeStepError == "range() arg 3 must not be zero"

(***************************************************************************)
(* format_groups_ru, lines 231-240: the groups of a line joined by " ",    *)
(* the lines joined by a line feed, and a line feed at the end.            *)
(***************************************************************************)
format_groups_ru(groups, per_line) ==
    IF per_line <= 0 THEN [ok |-> FALSE, value |-> <<>>, error |-> PerLineError]
    ELSE LET chunks == slices(groups, per_line)
             lines  == [idx \in 1..Len(chunks) |->
                           join(<<32>>, [j \in 1..Len(chunks[idx]) |->
                                            format_group_ru(chunks[idx][j])])]
         IN  [ok |-> TRUE, value |-> join(<<10>>, lines) \o <<10>>, error |-> ""]

\* variant: the lines are joined without the line feed between them
format_groups_unwrapped(groups, per_line) ==
    IF per_line = 0 THEN [ok |-> FALSE, value |-> <<>>, error |-> RangeStepError]
    ELSE IF per_line < 0 THEN [ok |-> TRUE, value |-> <<10>>, error |-> ""]
    ELSE LET chunks == slices(groups, per_line)
             lines  == [idx \in 1..Len(chunks) |-> join(<<32>>, chunks[idx])]
         IN  [ok |-> TRUE, value |-> join(<<>>, lines) \o <<10>>, error |-> ""]

(***************************************************************************)
(* broadcast.format_groups, lines 76-79.  range() raises ValueError for a  *)
(* step of 0 and is empty for a negative step.                             *)
(***************************************************************************)
format_groups(groups, per_line) ==
    IF per_line = 0 THEN [ok |-> FALSE, value |-> <<>>, error |-> RangeStepError]
    ELSE IF per_line < 0 THEN [ok |-> TRUE, value |-> <<10>>, error |-> ""]
    ELSE LET chunks == slices(groups, per_line)
             lines  == [idx \in 1..Len(chunks) |-> join(<<32>>, chunks[idx])]
         IN  [ok |-> TRUE, value |-> join(<<10>>, lines) \o <<10>>, error |-> ""]

(***************************************************************************)
(* crypto.parse_groups_text, lines 324-325: re.split(r"\s+", text.strip()) *)
(* and the pieces that are not empty, i.e. the maximal runs of characters  *)
(* that are not white space.  No text makes it raise.                      *)
(***************************************************************************)
\* the maximal runs of characters that are not white space
split_whitespace(s) == Runs(s, {i \in 1..Len(s) : ~IsSpace(s[i])})

parse_groups_text(text) ==
    [ok |-> TRUE, value |-> split_whitespace(strip(text)), error |-> ""]

(***************************************************************************)
(* russian.py: the codeword of each Latin letter A..Z, and the codewords   *)
(* of the letters of a key.                                                *)
(***************************************************************************)
RU_CODEWORDS ==
    [d \in 65..90 |->
        CASE d = 65 -> <<1040, 1053, 1053, 1040>>
          [] d = 66 -> <<1041, 1054, 1056, 1048, 1057>>
          [] d = 67 -> <<1062, 1045, 1053, 1058, 1056>>
          [] d = 68 -> <<1044, 1052, 1048, 1058, 1056, 1048, 1049>>
          [] d = 69 -> <<1045, 1051, 1045, 1053, 1040>>
          [] d = 70 -> <<1060, 1025, 1044, 1054, 1056>>
          [] d = 71 -> <<1043, 1056, 1048, 1043, 1054, 1056, 1048, 1049>>
          [] d = 72 -> <<1061, 1040, 1056, 1048, 1058, 1054, 1053>>
          [] d = 73 -> <<1048, 1056, 1048, 1053, 1040>>
          [] d = 74 -> <<1070, 1051, 1048, 1071>>
          [] d = 75 -> <<1050, 1054, 1053, 1057, 1058, 1040, 1053, 1058, 1048, 1053>>
          [] d = 76 -> <<1051, 1045, 1054, 1053, 1048, 1044>>
          [] d = 77 -> <<1052, 1048, 1061, 1040, 1048, 1051>>
          [] d = 78 -> <<1053, 1048, 1050, 1054, 1051, 1040, 1049>>
          [] d = 79 -> <<1054, 1051, 1045, 1043>>
          [] d = 80 -> <<1055, 1040, 1042, 1045, 1051>>
          [] d = 81 -> <<1050, 1042, 1040, 1047, 1040, 1056>>
          [] d = 82 -> <<1056, 1054, 1052, 1040, 1053>>
          [] d = 83 -> <<1057, 1045, 1056, 1043, 1045, 1049>>
          [] d = 84 -> <<1058, 1040, 1058, 1068, 1071, 1053, 1040>>
          [] d = 85 -> <<1059, 1051, 1068, 1071, 1053, 1040>>
          [] d = 86 -> <<1042, 1048, 1050, 1058, 1054, 1056>>
          [] d = 87 -> <<1042, 1040, 1051, 1045, 1056, 1048, 1049>>
          [] d = 88 -> <<1050, 1057, 1045, 1053, 1048, 1071>>
          [] d = 89 -> <<1071, 1050, 1054, 1042>>
          [] d = 90 -> <<1047, 1048, 1053, 1040, 1048, 1044, 1040>>]

\* variant: the key is read as it was written, without str.upper
codewords_from_key_as_written(key) ==
    LET letters == SelectSeq(strip(key), LAMBDA ch : ch >= 65 /\ ch <= 90)
        known   == SelectSeq(letters, LAMBDA ch : ch \in DOMAIN RU_CODEWORDS)
    IN  [idx \in 1..Len(known) |-> RU_CODEWORDS[known[idx]]]

codewords_from_key(key) ==
    LET letters == SelectSeq(upper(strip(key)), LAMBDA ch : ch >= 65 /\ ch <= 90)
        known   == SelectSeq(letters, LAMBDA ch : ch \in DOMAIN RU_CODEWORDS)
    IN  [idx \in 1..Len(known) |-> RU_CODEWORDS[known[idx]]]

(***************************************************************************)
(* Inputs the callers draw from.                                           *)
(***************************************************************************)
\* "z", " "
TextChars == {122, 32}
\* "B", "z", "1"
KeyChars == {66, 122, 49}
\* symbols handed to the substitution layer directly
SymbolSample == {0, 1, 25}
\* values handed to the packer directly (26 is the padding sentinel)
PackSample == {0, 25, 26}
\* "1234a", "12 34", " ", "-0001", "+0012", "1_234", "99999"
TokenSample ==
    { <<49, 50, 51, 52, 97>>, <<49, 50, 32, 51, 52>>, <<32>>,
      <<45, 48, 48, 48, 49>>, <<43, 48, 48, 49, 50>>, <<49, 95, 50, 51, 52>>,
      <<57, 57, 57, 57, 57>> }

\* mask keys given next to a key: "z", "-"
MaskSample == {<<122>>, <<45>>}
\* mask keys given to the packer directly, already sanitized: "B", "ZB"
CleanKeys == {<<66>>, <<90, 66>>}
\* (key, mask key) given to decrypt_from_groups:
\* ("B", "z"), ("Bz", "Bz"), ("1", "z"), ("B", "-"), ("", "")
ConfigSample ==
    { <<(<<66>>), (<<122>>)>>, <<(<<66, 122>>), (<<66, 122>>)>>,
      <<(<<49>>), (<<122>>)>>, <<(<<66>>), (<<45>>)>>, <<(<<>>), (<<>>)>> }

\* second keys for the same symbols: one symbol, one symbol repeated, and
\* keys that agree with <<1>> on the first position only
OtherKeySample == {<<0>>, <<1>>, <<1, 1>>, <<1, 25>>}

\* characters for sanitize_plaintext alone: "a", "Z", "-" and U+00DF
SanitizeChars == {97, 90, 45, 223}

\* pieces of the texts handed to parse_groups_maybe_ru: "7", "12345 " and
\* the word for 3, its first letter a capital and the others small,
\* followed by ". "
PieceSample ==
    { <<55>>, <<49, 50, 51, 52, 53, 32>>, <<1058, 1088, 1080, 46, 32>> }

RECURSIVE Flatten(_)
Flatten(ss) == IF ss = <<>> THEN <<>> ELSE Head(ss) \o Flatten(Tail(ss))

\* groups handed to the formatters: "01234", "56789", "00007"
GroupSample ==
    { <<48, 49, 50, 51, 52>>, <<53, 54, 55, 56, 57>>, <<48, 48, 48, 48, 55>> }

DEFAULT_GROUPS_PER_LINE == 7

PerLineSample == {0, 1, 2, DEFAULT_GROUPS_PER_LINE}

\* an option that was not given on the command line
None == <<-1>>

\* --key, --mask-key and --groups-per-line of the commands: "B", "Bz", "1";
\* no mask key or "z"
GenKeys == { <<66>>, <<66, 122>>, <<49>>, <<32, 122, 49, 66>> }
GenMasks == { None, <<122>> }
GenPerLine == {0, 1, DEFAULT_GROUPS_PER_LINE}

\* --groups of a decode command that reads no file of gen: not given,
\* empty, "99999 1234a" and a line feed
DecodeTexts == { None, <<>>, <<57, 57, 57, 57, 57, 32, 49, 50, 51, 52, 97, 10>> }

\* blank tokens: the empty string and " "
BlankSample == {<<>>, <<32>>}

Texts == SeqsUpTo(TextChars, MaxTextLen)
Keys == SeqsUpTo(KeyChars, MaxKeyLen)
SanitizeTexts == SeqsUpTo(SanitizeChars, MaxTextLen)
ParserTexts == { Flatten(ps) : ps \in SeqsUpTo(PieceSample, MaxPieces) }
GroupLists == SeqsUpTo(GroupSample, MaxGroups)
SymbolSeqs == SeqsUpTo(SymbolSample, MaxSyms)
SymbolKeys == SeqsUpTo(SymbolSample, MaxKeyLen) \ {<<>>}
PackSeqs == SeqsUpTo(PackSample, MaxSyms)
TokenLists == SeqsUpTo(TokenSample, MaxTokens)

(***************************************************************************)
(* Errors: the messages of the Uvb76GenError the code raises.              *)
(***************************************************************************)
KeyError == "Key must contain at least one A-Z letter."
InvalidGroup == "Invalid group"
TripletOutOfRange == "Decoded triplet out of range"
SymbolOutOfRange == "Decoded symbols include out-of-range values."

NoInput == "Provide --groups-file or --groups"
NoCodewords == "Failed to derive Russian codewords from --key."

(***************************************************************************)
(* State.  call[c] is the activation of the function caller c is running   *)
(* (its arguments, its locals, where it is, what it returned or raised);   *)
(* prev[c] is the finished activation the caller kept to compare with or   *)
(* to feed from.                                                           *)
(***************************************************************************)
VARIABLES call, prev

vars == <<call, prev>>

NoResult == [kind |-> "none", value |-> <<>>, error |-> ""]

NoCall ==
    [pc |-> "idle", fn |-> "none",
     plaintext |-> <<>>, key |-> <<>>, mask_key |-> <<>>,
     plain |-> <<>>, key_nums |-> <<>>,
     cipher_nums |-> <<>>, groups |-> <<>>,
     k |-> <<>>, mk |-> <<>>,
     nums |-> <<>>, prng |-> {}, i |-> 0, pos |-> 1, out |-> <<>>,
     text |-> <<>>, per_line |-> 0,
     groups_raw_txt |-> <<>>, groups_txt |-> <<>>,
     seed |-> {}, effective_names |-> <<>>,
     result |-> NoResult]

Return(f, v) ==
    [f EXCEPT !.pc = "done", !.result = [kind |-> "return", value |-> v, error |-> ""]]

Raise(f, e) ==
    [f EXCEPT !.pc = "done", !.result = [kind |-> "raise", value |-> <<>>, error |-> e]]

Returned(f) == f.pc = "done" /\ f.result.kind = "return"
Raised(f, e) == f.pc = "done" /\ f.result.kind = "raise" /\ f.result.error = e

(***************************************************************************)
(* encode_groups, lines 238-244: pad, create the generator, empty list.    *)
(***************************************************************************)
encode_groups_enter(f, cipher_nums, mask_key) ==
    [f EXCEPT !.pc = "encode_loop",
              !.cipher_nums = cipher_nums,
              !.nums = pad_nums(cipher_nums),
              !.prng = xorshift32(seed32(mask_key)),
              !.groups = <<>>,
              !.i = 0]

(***************************************************************************)
(* encode_groups, lines 246-254: one trip round the for loop.              *)
(***************************************************************************)
encode_groups_body(f) ==
    LET a   == f.nums[f.i + 1]
        b   == f.nums[f.i + 2]
        c   == f.nums[f.i + 3]
        n   == pack(a, b, c)
        x   == xorshift32_next(f.prng)
        off == WordMod(xorshift32_yield(x), OffsetModulus)
        g   == n + off
    IN  [f EXCEPT !.prng = x,
                  !.groups = Append(f.groups, zfill(str(g), 5)),
                  !.i = f.i + 3]

(***************************************************************************)
(* decode_groups, lines 282-283.                                           *)
(***************************************************************************)
decode_groups_enter(f, groups, mask_key) ==
    [f EXCEPT !.pc = "decode_loop",
              !.groups = groups,
              !.prng = xorshift32(seed32(mask_key)),
              !.out = <<>>,
              !.pos = 1]

\* variant: a token that does not parse is reported by the range check
decode_groups_body_one_error(f) ==
    LET g   == f.groups[f.pos]
        gi  == int10(g)
        x   == xorshift32_next(f.prng)
        off == WordMod(xorshift32_yield(x), OffsetModulus)
        n   == gi.val - off
    IN  IF strip(g) = <<>> THEN [f EXCEPT !.pos = f.pos + 1]
        ELSE IF ~gi.ok \/ n < 0 \/ n > MaxTriplet
             THEN Raise([f EXCEPT !.prng = x], TripletOutOfRange)
        ELSE [f EXCEPT !.prng = x,
                       !.out = f.out \o unpack(n),
                       !.pos = f.pos + 1]

\* variant: the upper limit of the range check is off by one
decode_groups_body_off_by_one(f) ==
    LET g   == f.groups[f.pos]
        gi  == int10(g)
        x   == xorshift32_next(f.prng)
        off == WordMod(xorshift32_yield(x), OffsetModulus)
        n   == gi.val - off
    IN  IF strip(g) = <<>> THEN [f EXCEPT !.pos = f.pos + 1]
        ELSE IF ~gi.ok THEN Raise(f, InvalidGroup)
        ELSE IF n < 0 \/ n > MaxTriplet + 1
             THEN Raise([f EXCEPT !.prng = x], TripletOutOfRange)
        ELSE [f EXCEPT !.prng = x,
                       !.out = f.out \o unpack(n),
                       !.pos = f.pos + 1]

\* variant: a token that does not parse is passed over like a blank one
decode_groups_body_skips_invalid(f) ==
    LET g   == f.groups[f.pos]
        gi  == int10(g)
        x   == xorshift32_next(f.prng)
        off == WordMod(xorshift32_yield(x), OffsetModulus)
        n   == gi.val - off
    IN  IF strip(g) = <<>> \/ ~gi.ok THEN [f EXCEPT !.pos = f.pos + 1]
        ELSE IF n < 0 \/ n > MaxTriplet
             THEN Raise([f EXCEPT !.prng = x], TripletOutOfRange)
        ELSE [f EXCEPT !.prng = x,
                       !.out = f.out \o unpack(n),
                       !.pos = f.pos + 1]

\* variant: an offset is drawn for a blank token as well
decode_groups_body_draws_on_blank(f) ==
    LET g   == f.groups[f.pos]
        gi  == int10(g)
        x   == xorshift32_next(f.prng)
        off == WordMod(xorshift32_yield(x), OffsetModulus)
        n   == gi.val - off
    IN  IF strip(g) = <<>> THEN [f EXCEPT !.prng = x, !.pos = f.pos + 1]
        ELSE IF ~gi.ok THEN Raise(f, InvalidGroup)
        ELSE IF n < 0 \/ n > MaxTriplet
             THEN Raise([f EXCEPT !.prng = x], TripletOutOfRange)
        ELSE [f EXCEPT !.prng = x,
                       !.out = f.out \o unpack(n),
                       !.pos = f.pos + 1]

(***************************************************************************)
(* decode_groups, lines 285-302: one trip round the for loop.              *)
(***************************************************************************)
decode_groups_body(f) ==
    LET g   == f.groups[f.pos]
        gi  == int10(g)
        x   == xorshift32_next(f.prng)
        off == WordMod(xorshift32_yield(x), OffsetModulus)
        n   == gi.val - off
    IN  IF strip(g) = <<>> THEN [f EXCEPT !.pos = f.pos + 1]
        ELSE IF ~gi.ok THEN Raise(f, InvalidGroup)
        ELSE IF n < 0 \/ n > MaxTriplet
             THEN Raise([f EXCEPT !.prng = x], TripletOutOfRange)
        ELSE [f EXCEPT !.prng = x,
                       !.out = f.out \o unpack(n),
                       !.pos = f.pos + 1]

\* variant: the values that remain are not validated
decode_groups_tail_unchecked(f) ==
    LET out == strip_padding(f.out)
    IN  Return([f EXCEPT !.out = out], out)

(***************************************************************************)
(* decode_groups, lines 304-311: strip the padding, validate, return.      *)
(***************************************************************************)
decode_groups_tail(f) ==
    LET out == strip_padding(f.out)
        g   == [f EXCEPT !.out = out]
    IN  IF \E idx \in 1..Len(out) : out[idx] < 0 \/ out[idx] > 25
        THEN Raise(g, SymbolOutOfRange)
        ELSE Return(g, out)

(***************************************************************************)
(* decrypt_from_groups, lines 370-372, after decode_groups returned.       *)
(***************************************************************************)
decrypt_from_groups_tail(f) ==
    LET d == decode_groups_tail(f)
    IN  IF d.result.kind = "raise" THEN d
        ELSE LET cipher_nums == d.result.value
                 key_nums    == letters_to_nums(f.k)
                 plain_nums  == vigenere_decrypt(cipher_nums, key_nums)
             IN  Return([d EXCEPT !.cipher_nums = cipher_nums,
                                  !.key_nums = key_nums,
                                  !.plain = plain_nums],
                        nums_to_letters(plain_nums))

(***************************************************************************)
(* encrypt_to_groups, lines 342-349, up to the loop of encode_groups.      *)
(***************************************************************************)
encrypt_to_groups_enter(plaintext, key, mask_key) ==
    LET f     == [NoCall EXCEPT !.fn = "encrypt_to_groups",
                                !.plaintext = plaintext,
                                !.key = key,
                                !.mask_key = mask_key]
        clean == sanitize_plaintext(plaintext)
        k     == sanitize_key(key)
        mk    == sanitize_key(mask_key)
    IN  IF ~k.ok THEN Raise(f, KeyError)
        ELSE IF ~mk.ok THEN Raise([f EXCEPT !.k = k.k], KeyError)
        ELSE LET p        == letters_to_nums(clean)
                 key_nums == letters_to_nums(k.k)
                 c        == vigenere_encrypt(p, key_nums)
             IN  encode_groups_enter([f EXCEPT !.k = k.k, !.mk = mk.k,
                                               !.plain = p, !.key_nums = key_nums],
                                     c, mk.k)

\* variant: the mask key is sanitized but never validated
decrypt_from_groups_enter_unchecked_mask(groups, key, mask_key) ==
    LET f  == [NoCall EXCEPT !.fn = "decrypt_from_groups",
                             !.groups = groups,
                             !.key = key,
                             !.mask_key = mask_key]
        k  == sanitize_key(key)
        mk == sanitize_key(mask_key)
    IN  IF ~k.ok THEN Raise(f, KeyError)
        ELSE decode_groups_enter([f EXCEPT !.k = k.k, !.mk = mk.k], groups, mk.k)

\* variant: the sanitized key is handed to decode_groups as the mask key
decrypt_from_groups_enter_key_as_mask(groups, key, mask_key) ==
    LET f  == [NoCall EXCEPT !.fn = "decrypt_from_groups",
                             !.groups = groups,
                             !.key = key,
                             !.mask_key = mask_key]
        k  == sanitize_key(key)
        mk == sanitize_key(mask_key)
    IN  IF ~k.ok THEN Raise(f, KeyError)
        ELSE IF ~mk.ok THEN Raise([f EXCEPT !.k = k.k], KeyError)
        ELSE decode_groups_enter([f EXCEPT !.k = k.k, !.mk = mk.k], groups, k.k)

(***************************************************************************)
(* decrypt_from_groups, lines 366-369, up to the loop of decode_groups.    *)
(***************************************************************************)
decrypt_from_groups_enter(groups, key, mask_key) ==
    LET f  == [NoCall EXCEPT !.fn = "decrypt_from_groups",
                             !.groups = groups,
                             !.key = key,
                             !.mask_key = mask_key]
        k  == sanitize_key(key)
        mk == sanitize_key(mask_key)
    IN  IF ~k.ok THEN Raise(f, KeyError)
        ELSE IF ~mk.ok THEN Raise([f EXCEPT !.k = k.k], KeyError)
        ELSE decode_groups_enter([f EXCEPT !.k = k.k, !.mk = mk.k], groups, mk.k)

(***************************************************************************)
(* cli.gen, lines 127-130: the mask key defaults to the key, then          *)
(* encrypt_to_groups runs.  A Uvb76GenError ends the command with exit     *)
(* code 1.                                                                 *)
(***************************************************************************)
gen_enter(text, key, mask_key, per_line) ==
    LET mk == IF mask_key = None THEN key ELSE mask_key
    IN  [encrypt_to_groups_enter(text, key, mk) EXCEPT !.fn = "gen",
                                                      !.mask_key = mask_key,
                                                      !.per_line = per_line]

(***************************************************************************)
(* cli.gen, lines 132-152, after encrypt_to_groups returned, with no       *)
(* --name: the codewords come from the letters of the key, groups_raw.txt  *)
(* is written, then groups.txt.  The ValueError of format_groups_ru is not *)
(* caught.  The broadcast script and the audio are left out: no command    *)
(* reads them back.                                                        *)
(***************************************************************************)
gen_tail(f) ==
    LET effective_names == codewords_from_key(f.key)
        e   == [f EXCEPT !.effective_names = effective_names]
        raw == join(<<32>>, f.groups) \o <<10>>
        g   == [e EXCEPT !.groups_raw_txt = raw]
        ru  == format_groups_ru(f.groups, f.per_line)
    IN  IF Len(effective_names) = 0 THEN Raise(e, NoCodewords)
        ELSE IF ~ru.ok THEN Raise(g, ru.error)
        ELSE Return([g EXCEPT !.groups_txt = ru.value], f.groups)

\* variant: without --mask-key the mask key is empty
decode_enter_empty_default(key, mask_key, groups_text) ==
    LET f   == [NoCall EXCEPT !.fn = "decode", !.key = key, !.mask_key = mask_key,
                              !.text = groups_text]
        mk  == IF mask_key = None THEN <<>> ELSE mask_key
        p   == parse_groups_text(groups_text)
        q   == parse_groups_maybe_ru(groups_text)
        enter(groups) ==
            [decrypt_from_groups_enter(groups, key, mk) EXCEPT !.fn = "decode",
                                                              !.mask_key = mask_key,
                                                              !.text = groups_text]
    IN  IF groups_text = None THEN Raise(f, NoInput)
        ELSE IF p.ok THEN enter(p.value)
        ELSE IF q.ok THEN enter(q.value)
        ELSE Raise(f, q.error)

(***************************************************************************)
(* cli.decode, lines 200-219, up to the loop of decode_groups.  The text   *)
(* is what --groups-file or --groups gave; with neither the command ends   *)
(* with exit code 2.  parse_groups_maybe_ru runs only if parse_groups_text *)
(* raised, and its ValueError is not caught.                               *)
(***************************************************************************)
decode_enter(key, mask_key, groups_text) ==
    LET f   == [NoCall EXCEPT !.fn = "decode", !.key = key, !.mask_key = mask_key,
                              !.text = groups_text]
        mk  == IF mask_key = None THEN key ELSE mask_key
        p   == parse_groups_text(groups_text)
        q   == parse_groups_maybe_ru(groups_text)
        enter(groups) ==
            [decrypt_from_groups_enter(groups, key, mk) EXCEPT !.fn = "decode",
                                                              !.mask_key = mask_key,
                                                              !.text = groups_text]
    IN  IF groups_text = None THEN Raise(f, NoInput)
        ELSE IF p.ok THEN enter(p.value)
        ELSE IF q.ok THEN enter(q.value)
        ELSE Raise(f, q.error)

(***************************************************************************)
(* Direct calls of encode_groups, decode_groups and the Vigenere layer.    *)
(***************************************************************************)
encode_groups_call(cipher_nums, mask_key) ==
    encode_groups_enter([NoCall EXCEPT !.fn = "encode_groups", !.mask_key = mask_key],
                        cipher_nums, mask_key)

decode_groups_call(groups, mask_key) ==
    decode_groups_enter([NoCall EXCEPT !.fn = "decode_groups", !.mask_key = mask_key],
                        groups, mask_key)

vigenere_encrypt_call(plain, key) ==
    Return([NoCall EXCEPT !.fn = "vigenere_encrypt", !.plain = plain, !.key_nums = key],
           vigenere_encrypt(plain, key))

vigenere_decrypt_call(cipher, key) ==
    Return([NoCall EXCEPT !.fn = "vigenere_decrypt", !.cipher_nums = cipher,
                          !.key_nums = key],
           vigenere_decrypt(cipher, key))

sanitize_plaintext_call(text) ==
    Return([NoCall EXCEPT !.fn = "sanitize_plaintext", !.plaintext = text],
           sanitize_plaintext(text))

format_groups_call(groups, per_line) ==
    LET f == [NoCall EXCEPT !.fn = "format_groups", !.groups = groups,
                            !.per_line = per_line]
        r == format_groups(groups, per_line)
    IN  IF r.ok THEN Return(f, r.value) ELSE Raise(f, r.error)

format_groups_ru_call(groups, per_line) ==
    LET f == [NoCall EXCEPT !.fn = "format_groups_ru", !.groups = groups,
                            !.per_line = per_line]
        r == format_groups_ru(groups, per_line)
    IN  IF r.ok THEN Return(f, r.value) ELSE Raise(f, r.error)

parse_groups_text_call(text) ==
    LET f == [NoCall EXCEPT !.fn = "parse_groups_text", !.text = text]
        r == parse_groups_text(text)
    IN  IF r.ok THEN Return(f, r.value) ELSE Raise(f, r.error)

parse_groups_maybe_ru_call(text) ==
    LET f == [NoCall EXCEPT !.fn = "parse_groups_maybe_ru", !.text = text]
        r == parse_groups_maybe_ru(text)
    IN  IF r.ok THEN Return(f, r.value) ELSE Raise(f, r.error)

\* variant: one generator for the whole module, created by the first call
\* and never created again
Invoke_shared(c, f, keep) ==
    /\ call[c].pc \in {"idle", "done"}
    /\ call' = [call EXCEPT ![c] =
                    IF f.pc \in {"encode_loop", "decode_loop"} /\ call[c].fn # "none"
                    THEN [f EXCEPT !.prng = call[c].prng]
                    ELSE f]
    /\ prev' = [prev EXCEPT ![c] = IF keep THEN call[c] ELSE NoCall]

(***************************************************************************)
(* A caller invokes a function: a new activation replaces the one it had.  *)
(* Every local of the new activation is created by the function itself.    *)
(* keep says whether the caller holds on to the activation that finished.  *)
(***************************************************************************)
Invoke(c, f, keep) ==
    /\ call[c].pc \in {"idle", "done"}
    /\ call' = [call EXCEPT ![c] = f]
    /\ prev' = [prev EXCEPT ![c] = IF keep THEN call[c] ELSE NoCall]

(***************************************************************************)
(* The caller drops what it holds and is ready for an unrelated call.      *)
(***************************************************************************)
Release(c) ==
    /\ call[c].pc = "done"
    /\ call' = [call EXCEPT ![c] = NoCall]
    /\ prev' = [prev EXCEPT ![c] = NoCall]

(***************************************************************************)
(* Calls with arguments of the caller's choice.                            *)
(***************************************************************************)
CallEncrypt(c) ==
    /\ call[c].pc = "idle"
    /\ \E t \in Texts, k \in Keys :
          \E m \in {k} \cup MaskSample :
              Invoke(c, encrypt_to_groups_enter(t, k, m), FALSE)

CallDecrypt(c) ==
    /\ call[c].pc = "idle"
    /\ \E g \in TokenLists, cfg \in ConfigSample :
          Invoke(c, decrypt_from_groups_enter(g, cfg[1], cfg[2]), FALSE)

CallEncodeGroups(c) ==
    /\ call[c].pc = "idle"
    /\ \E s \in PackSeqs, m \in CleanKeys :
        Invoke(c, encode_groups_call(s, m), FALSE)

CallDecodeGroups(c) ==
    /\ call[c].pc = "idle"
    /\ \E g \in TokenLists, m \in CleanKeys :
        Invoke(c, decode_groups_call(g, m), FALSE)

CallVigenereEncrypt(c) ==
    /\ call[c].pc = "idle"
    /\ \E x \in SymbolSeqs, k \in SymbolKeys :
        Invoke(c, vigenere_encrypt_call(x, k), FALSE)

CallVigenereDecrypt(c) ==
    /\ call[c].pc = "idle"
    /\ \E x \in SymbolSeqs, k \in SymbolKeys :
        Invoke(c, vigenere_decrypt_call(x, k), FALSE)

(***************************************************************************)
(* The same call once more, as the second of "two separate calls".         *)
(***************************************************************************)
SameCall(f) ==
    CASE f.fn = "encrypt_to_groups" ->
            encrypt_to_groups_enter(f.plaintext, f.key, f.mask_key)
      [] f.fn = "decrypt_from_groups" ->
            decrypt_from_groups_enter(f.groups, f.key, f.mask_key)
      [] f.fn = "encode_groups" -> encode_groups_call(f.cipher_nums, f.mask_key)
      [] f.fn = "decode_groups" -> decode_groups_call(f.groups, f.mask_key)
      [] f.fn = "vigenere_encrypt" -> vigenere_encrypt_call(f.plain, f.key_nums)
      [] f.fn = "vigenere_decrypt" -> vigenere_decrypt_call(f.cipher_nums, f.key_nums)

CallAgain(c) ==
    /\ call[c].pc = "done"
    /\ prev[c].fn = "none"
    /\ call[c].fn \in {"encrypt_to_groups", "decrypt_from_groups", "encode_groups",
                       "decode_groups", "vigenere_encrypt", "vigenere_decrypt"}
    /\ Invoke(c, SameCall(call[c]), TRUE)

(***************************************************************************)
(* The result of an encoding call handed to the matching decoding call     *)
(* with the same keys, as tests/test_roundtrip.py does.                    *)
(***************************************************************************)
CallInverse(c) ==
    /\ Returned(call[c])
    /\ \/ /\ call[c].fn = "encrypt_to_groups"
          /\ Invoke(c, decrypt_from_groups_enter(call[c].result.value,
                                                 call[c].key, call[c].mask_key), TRUE)
       \/ /\ call[c].fn = "encode_groups"
          /\ Invoke(c, decode_groups_call(call[c].result.value, call[c].mask_key), TRUE)
       \/ /\ call[c].fn = "encode_groups"
          /\ Invoke(c, decrypt_from_groups_enter(call[c].result.value,
                                                 call[c].mask_key, call[c].mask_key), TRUE)
       \/ /\ call[c].fn = "vigenere_encrypt"
          /\ Invoke(c, vigenere_decrypt_call(call[c].result.value, call[c].key_nums), TRUE)

(***************************************************************************)
(* The result of encrypt_to_groups handed to decrypt_from_groups with the  *)
(* same key and another mask key.                                          *)
(***************************************************************************)
CallWrongMask(c) ==
    /\ Returned(call[c])
    /\ call[c].fn = "encrypt_to_groups"
    /\ \E m \in ({call[c].key} \cup MaskSample) \ {call[c].mask_key} :
          Invoke(c, decrypt_from_groups_enter(call[c].result.value,
                                              call[c].key, m), TRUE)

(***************************************************************************)
(* The same symbols encrypted once more under a second key.                *)
(***************************************************************************)
CallOtherKey(c) ==
    /\ Returned(call[c])
    /\ call[c].fn = "vigenere_encrypt"
    /\ prev[c].fn = "none"
    /\ \E k2 \in OtherKeySample :
          Invoke(c, vigenere_encrypt_call(call[c].plain, k2), TRUE)

(***************************************************************************)
(* sanitize_plaintext on a text, and once more on what it returned.        *)
(***************************************************************************)
CallSanitize(c) ==
    /\ call[c].pc = "idle"
    /\ \E t \in SanitizeTexts : Invoke(c, sanitize_plaintext_call(t), FALSE)

CallSanitizeResult(c) ==
    /\ Returned(call[c])
    /\ call[c].fn = "sanitize_plaintext"
    /\ prev[c].fn = "none"
    /\ Invoke(c, sanitize_plaintext_call(call[c].result.value), TRUE)

(***************************************************************************)
(* parse_groups_maybe_ru on a text of the caller's choice.                 *)
(***************************************************************************)
CallParseMaybeRu(c) ==
    /\ call[c].pc = "idle"
    /\ \E t \in ParserTexts : Invoke(c, parse_groups_maybe_ru_call(t), FALSE)

(***************************************************************************)
(* The formatters on a group list of the caller's choice, and the parsers  *)
(* on what a formatter returned or on the groups_raw.txt of gen.           *)
(***************************************************************************)
CallFormatGroups(c) ==
    /\ call[c].pc = "idle"
    /\ \E g \in GroupLists, p \in PerLineSample :
          Invoke(c, format_groups_call(g, p), FALSE)

CallFormatGroupsRu(c) ==
    /\ call[c].pc = "idle"
    /\ \E g \in GroupLists, p \in PerLineSample :
          Invoke(c, format_groups_ru_call(g, p), FALSE)

CallParseText(c) ==
    /\ Returned(call[c])
    /\ call[c].fn \in {"format_groups", "gen"}
    /\ Invoke(c, parse_groups_text_call(IF call[c].fn = "gen"
                                        THEN call[c].groups_raw_txt
                                        ELSE call[c].result.value), TRUE)

CallParseRendering(c) ==
    /\ Returned(call[c])
    /\ call[c].fn = "format_groups_ru"
    /\ Invoke(c, parse_groups_maybe_ru_call(call[c].result.value), TRUE)

(***************************************************************************)
(* The commands: gen, decode on a text of the caller's choice, and decode  *)
(* on one of the two group files gen wrote, with the key and the mask key  *)
(* option of gen.                                                          *)
(***************************************************************************)
CallGen(c) ==
    /\ call[c].pc = "idle"
    /\ \E t \in Texts, k \in GenKeys, mo \in GenMasks, p \in GenPerLine :
          Invoke(c, gen_enter(t, k, mo, p), FALSE)

CallDecode(c) ==
    /\ call[c].pc = "idle"
    /\ \E k \in GenKeys, mo \in GenMasks, t \in DecodeTexts :
          Invoke(c, decode_enter(k, mo, t), FALSE)

CallDecodeFile(c) ==
    /\ Returned(call[c])
    /\ call[c].fn = "gen"
    /\ \E t \in {call[c].groups_raw_txt, call[c].groups_txt} :
          Invoke(c, decode_enter(call[c].key, call[c].mask_key, t), TRUE)

(***************************************************************************)
(* The group list of a finished decode_groups call decoded once more with  *)
(* a blank token put in at some place.                                     *)
(***************************************************************************)
InsertAt(groups, j, g) ==
    SubSeq(groups, 1, j) \o <<g>> \o SubSeq(groups, j + 1, Len(groups))

CallDecodeWithBlank(c) ==
    /\ call[c].pc = "done"
    /\ call[c].fn = "decode_groups"
    /\ prev[c].fn # "decode_groups"
    /\ \E j \in 0..Len(call[c].groups), b \in BlankSample :
          Invoke(c, decode_groups_call(InsertAt(call[c].groups, j, b),
                                        call[c].mask_key), TRUE)

(***************************************************************************)
(* The group list of a decode_groups call that returned, decoded once more *)
(* with groups appended whose value is 19682, the triplet (26, 26, 26),    *)
(* plus the offset of their place among the non-blank groups.              *)
(***************************************************************************)
RECURSIVE SentinelGroups(_, _)
SentinelGroups(prng, more) ==
    IF more = 0 THEN <<>>
    ELSE LET x == xorshift32_next(prng)
         IN  <<zfill(str(MaxTriplet + WordMod(xorshift32_yield(x), OffsetModulus)), 5)>>
                \o SentinelGroups(x, more - 1)

CallDecodeExtended(c) ==
    /\ Returned(call[c])
    /\ call[c].fn = "decode_groups"
    /\ prev[c].fn # "decode_groups"
    /\ \E more \in 1..MaxAppended :
          Invoke(c, decode_groups_call(call[c].groups
                                          \o SentinelGroups(call[c].prng, more),
                                       call[c].mask_key), TRUE)

(***************************************************************************)
(* A group list that was damaged on the way: the value of one group is one *)
(* more or one less.                                                       *)
(***************************************************************************)
Damaged(groups) ==
    { [groups EXCEPT ![j] = zfill(str(int10(groups[j]).val + d), 5)] :
        <<j, d>> \in { jd \in (1..Len(groups)) \X {-1, 1} :
                        /\ int10(groups[jd[1]]).val + jd[2] >= 0
                        /\ int10(groups[jd[1]]).val + jd[2] <= 99999 } }

CallDecodeDamaged(c) ==
    /\ Returned(call[c])
    /\ call[c].fn = "encode_groups"
    /\ \E g \in Damaged(call[c].result.value) :
          Invoke(c, decode_groups_call(g, call[c].mask_key), TRUE)

(***************************************************************************)
(* The loops, one iteration per step, and the code after them.             *)
(***************************************************************************)
\* variant: one generator for all callers, kept by the first caller; every
\* draw is made from it and advances it
EncodeLoop_shared_generator(c) ==
    /\ call[c].pc = "encode_loop"
    /\ call[c].i < Len(call[c].nums)
    /\ LET b == encode_groups_body([call[c] EXCEPT !.prng = call[1].prng])
       IN  call' = [d \in DOMAIN call |->
                       IF d = 1 THEN (IF c = 1 THEN b ELSE [call[1] EXCEPT !.prng = b.prng])
                       ELSE IF d = c THEN [b EXCEPT !.prng = call[c].prng]
                       ELSE call[d]]
    /\ UNCHANGED prev

EncodeLoop(c) ==
    /\ call[c].pc = "encode_loop"
    /\ call[c].i < Len(call[c].nums)
    /\ call' = [call EXCEPT ![c] = encode_groups_body(call[c])]
    /\ UNCHANGED prev

EncodeReturn(c) ==
    /\ call[c].pc = "encode_loop"
    /\ call[c].i >= Len(call[c].nums)
    /\ call' = [call EXCEPT ![c] =
                    IF call[c].fn = "gen" THEN gen_tail(call[c])
                    ELSE Return(call[c], call[c].groups)]
    /\ UNCHANGED prev

DecodeLoop(c) ==
    /\ call[c].pc = "decode_loop"
    /\ call[c].pos <= Len(call[c].groups)
    /\ call' = [call EXCEPT ![c] = decode_groups_body(call[c])]
    /\ UNCHANGED prev

DecodeReturn(c) ==
    /\ call[c].pc = "decode_loop"
    /\ call[c].pos > Len(call[c].groups)
    /\ call' = [call EXCEPT ![c] =
                    IF call[c].fn \in {"decrypt_from_groups", "decode"}
                    THEN decrypt_from_groups_tail(call[c])
                    ELSE decode_groups_tail(call[c])]
    /\ UNCHANGED prev

Callers == {1}

Init ==
    /\ call = [c \in Callers |-> NoCall]
    /\ prev = [c \in Callers |-> NoCall]

Next ==
    \E c \in DOMAIN call :
        \/ CallEncrypt(c)
        \/ CallDecrypt(c)
        \/ CallEncodeGroups(c)
        \/ CallDecodeGroups(c)
        \/ CallVigenereEncrypt(c)
        \/ CallVigenereDecrypt(c)
        \/ CallAgain(c)
        \/ Release(c)
        \/ CallInverse(c)
        \/ CallWrongMask(c)
        \/ CallOtherKey(c)
        \/ CallSanitize(c)
        \/ CallSanitizeResult(c)
        \/ CallParseMaybeRu(c)
        \/ CallFormatGroups(c)
        \/ CallFormatGroupsRu(c)
        \/ CallParseText(c)
        \/ CallParseRendering(c)
        \/ CallGen(c)
        \/ CallDecode(c)
        \/ CallDecodeFile(c)
        \/ CallDecodeDamaged(c)
        \/ EncodeLoop(c)
        \/ EncodeReturn(c)
        \/ DecodeLoop(c)
        \/ DecodeReturn(c)

Spec == Init /\ [][Next]_vars

(***************************************************************************)
(* A second specification for the packer alone: the generator may start    *)
(* from any state, not only from the digest of a key of the model.  The    *)
(* sample holds the states whose first output is 0, 1, 80317, 80318,       *)
(* 2*80318 - 1, 2^31, the largest output that is 80317 modulo 80318, and   *)
(* 2^32 - 1.                                                               *)
(***************************************************************************)
SeedSample ==
    { U32(0, 0), U32(62133, 34089), U32(7441, 9978), U32(2767, 43393),
      U32(51351, 51421), U32(34816, 16384), U32(52101, 48340), U32(24172, 64743) }

encode_groups_seeded(cipher_nums, seed) ==
    [encode_groups_call(cipher_nums, <<>>) EXCEPT !.prng = xorshift32(seed)]

InitAnySeed ==
    /\ \E s \in PackSeqs, seed \in SeedSample :
          call = [c \in Callers |-> encode_groups_seeded(s, seed)]
    /\ prev = [c \in Callers |-> NoCall]

NextAnySeed ==
    \E c \in DOMAIN call :
        \/ EncodeLoop(c)
        \/ EncodeReturn(c)

SpecAnySeed == InitAnySeed /\ [][NextAnySeed]_vars

(***************************************************************************)
(* A third specification: two callers (threads) whose calls of             *)
(* encrypt_to_groups and decrypt_from_groups interleave step by step.      *)
(* Each call works on the locals of its own activation; the module holds   *)
(* no mutable global.                                                      *)
(***************************************************************************)
ConcurrentCallers == {1, 2}

ConcurrentTexts == { [i \in 1..MaxTextLen |-> 122], <<122>> }

ConcurrentConfigs == { << <<66>>, <<122>> >>, << <<66, 122>>, <<66, 122>> >> }

CallEncryptConcurrent(c) ==
    /\ call[c].pc = "idle"
    /\ \E t \in ConcurrentTexts, cfg \in ConcurrentConfigs :
          Invoke(c, encrypt_to_groups_enter(t, cfg[1], cfg[2]), FALSE)

CallDecryptConcurrent(c) ==
    /\ Returned(call[c])
    /\ call[c].fn = "encrypt_to_groups"
    /\ Invoke(c, decrypt_from_groups_enter(call[c].result.value,
                                           call[c].key, call[c].mask_key), TRUE)

InitConcurrent ==
    /\ call = [c \in ConcurrentCallers |-> NoCall]
    /\ prev = [c \in ConcurrentCallers |-> NoCall]

NextConcurrent ==
    \E c \in DOMAIN call :
        \/ CallEncryptConcurrent(c)
        \/ CallDecryptConcurrent(c)
        \/ Release(c)
        \/ EncodeLoop(c)
        \/ EncodeReturn(c)
        \/ DecodeLoop(c)
        \/ DecodeReturn(c)

SpecConcurrent == InitConcurrent /\ [][NextConcurrent]_vars

(***************************************************************************)
(* A fourth specification for the packing arithmetic: encode_groups is     *)
(* called on every triplet of values 0..26 and decode_groups on the group  *)
(* it returned, so that the loop bodies meet every triplet and every       *)
(* packed value 0..19682.                                                  *)
(***************************************************************************)
Triplets == { <<a, b, c>> : a \in 0..pad, b \in 0..pad, c \in 0..pad }

PackingMask == <<66>>

CallDecodePacked(c) ==
    /\ Returned(call[c])
    /\ call[c].fn = "encode_groups"
    /\ Invoke(c, decode_groups_call(call[c].result.value, call[c].mask_key), TRUE)

InitPacking ==
    /\ \E t \in Triplets :
          call = [c \in Callers |-> encode_groups_call(t, PackingMask)]
    /\ prev = [c \in Callers |-> NoCall]

NextPacking ==
    \E c \in DOMAIN call :
        \/ EncodeLoop(c)
        \/ EncodeReturn(c)
        \/ CallDecodePacked(c)
        \/ DecodeLoop(c)
        \/ DecodeReturn(c)

SpecPacking == InitPacking /\ [][NextPacking]_vars

(***************************************************************************)
(* A fifth specification for the generator alone: two holders each create  *)
(* a generator with xorshift32(seed) and draw from it with next() in any   *)
(* interleaving.  The activation of the generator function is suspended at *)
(* its yield between two draws; x is its only local.  The seeds are those  *)
(* of SeedSample, the digest of the key "B", and 2^32 + 1, which is wider  *)
(* than 32 bits.  out records the values a generator has yielded.          *)
(***************************************************************************)
GeneratorSeeds == SeedSample \cup {seed32(<<66>>), {0, 32}}

GeneratorHolders == {1, 2}

xorshift32_call(seed) ==
    [NoCall EXCEPT !.pc = "suspended", !.fn = "xorshift32",
                   !.seed = seed, !.prng = xorshift32(seed)]

CallXorshift32(c) ==
    /\ call[c].pc = "idle"
    /\ \E seed \in GeneratorSeeds : Invoke(c, xorshift32_call(seed), FALSE)

\* variant: the state x is a global of the module, kept with the first
\* holder's generator
NextValue_shared(c) ==
    /\ call[c].pc = "suspended"
    /\ call[c].i < MaxDraws
    /\ LET x == xorshift32_next(call[1].prng)
       IN  call' = [d \in DOMAIN call |->
                       IF d = c
                       THEN [call[c] EXCEPT !.prng = x,
                                            !.out = Append(call[c].out, xorshift32_yield(x)),
                                            !.i = call[c].i + 1]
                       ELSE IF d = 1 THEN [call[1] EXCEPT !.prng = x]
                       ELSE call[d]]
    /\ UNCHANGED prev

\* variant: the state is yielded first and advanced afterwards
NextValue_yield_first(c) ==
    /\ call[c].pc = "suspended"
    /\ call[c].i < MaxDraws
    /\ LET x == xorshift32_next(call[c].prng)
       IN  call' = [call EXCEPT ![c] =
                       [call[c] EXCEPT !.prng = x,
                                       !.out = Append(call[c].out,
                                                      xorshift32_yield(call[c].prng)),
                                       !.i = call[c].i + 1]]
    /\ UNCHANGED prev

\* next(prng): one trip round the loop, up to the yield
NextValue(c) ==
    /\ call[c].pc = "suspended"
    /\ call[c].i < MaxDraws
    /\ LET x == xorshift32_next(call[c].prng)
       IN  call' = [call EXCEPT ![c] =
                       [call[c] EXCEPT !.prng = x,
                                       !.out = Append(call[c].out, xorshift32_yield(x)),
                                       !.i = call[c].i + 1]]
    /\ UNCHANGED prev

InitGenerators ==
    /\ call = [c \in GeneratorHolders |-> NoCall]
    /\ prev = [c \in GeneratorHolders |-> NoCall]

NextGenerators ==
    \E c \in DOMAIN call :
        \/ CallXorshift32(c)
        \/ NextValue(c)

SpecGenerators == InitGenerators /\ [][NextGenerators]_vars

(***************************************************************************)
(* A sixth specification for keys written in several ways: a caller        *)
(* encrypts or decrypts, then makes the same call with the key and the     *)
(* mask key written in another way.  The keys are "B", "b", "1b-", "zB",   *)
(* "Z b", "1" and "".                                                      *)
(***************************************************************************)
SpelledKeys ==
    { <<66>>, <<98>>, <<49, 98, 45>>, <<122, 66>>, <<90, 32, 98>>, <<49>>, <<>> }

CallEncryptSpelled(c) ==
    /\ call[c].pc = "idle"
    /\ \E t \in ConcurrentTexts, k \in SpelledKeys, mk \in SpelledKeys :
          Invoke(c, encrypt_to_groups_enter(t, k, mk), FALSE)

CallDecryptSpelled(c) ==
    /\ Returned(call[c])
    /\ call[c].fn = "encrypt_to_groups"
    /\ prev[c].fn = "none"
    /\ Invoke(c, decrypt_from_groups_enter(call[c].result.value,
                                           call[c].key, call[c].mask_key), FALSE)

CallRespelled(c) ==
    /\ call[c].pc = "done"
    /\ prev[c].fn = "none"
    /\ \E k \in SpelledKeys, mk \in SpelledKeys :
          /\ <<k, mk>> # <<call[c].key, call[c].mask_key>>
          /\ \/ /\ call[c].fn = "encrypt_to_groups"
                /\ Invoke(c, encrypt_to_groups_enter(call[c].plaintext, k, mk), TRUE)
             \/ /\ call[c].fn = "decrypt_from_groups"
                /\ Invoke(c, decrypt_from_groups_enter(call[c].groups, k, mk), TRUE)

InitSpellings ==
    /\ call = [c \in Callers |-> NoCall]
    /\ prev = [c \in Callers |-> NoCall]

NextSpellings ==
    \E c \in DOMAIN call :
        \/ CallEncryptSpelled(c)
        \/ CallDecryptSpelled(c)
        \/ CallRespelled(c)
        \/ Release(c)
        \/ EncodeLoop(c)
        \/ EncodeReturn(c)
        \/ DecodeLoop(c)
        \/ DecodeReturn(c)

SpecSpellings == InitSpellings /\ [][NextSpellings]_vars

(***************************************************************************)
(* A seventh specification for the packer alone, called directly:          *)
(* encode_groups on symbols, decode_groups on tokens of the caller's       *)
(* choice, on what encode_groups returned, and on a group list decoded     *)
(* before with a group changed, a blank token put in, or groups of         *)
(* sentinels appended.                                                     *)
(***************************************************************************)
InitGroups ==
    /\ call = [c \in Callers |-> NoCall]
    /\ prev = [c \in Callers |-> NoCall]

NextGroups ==
    \E c \in DOMAIN call :
        \/ CallEncodeGroups(c)
        \/ CallDecodeGroups(c)
        \/ CallDecodePacked(c)
        \/ CallDecodeDamaged(c)
        \/ CallDecodeWithBlank(c)
        \/ CallDecodeExtended(c)
        \/ Release(c)
        \/ EncodeLoop(c)
        \/ EncodeReturn(c)
        \/ DecodeLoop(c)
        \/ DecodeReturn(c)

SpecGroups == InitGroups /\ [][NextGroups]_vars

(***************************************************************************)
(* Properties.                                                             *)
(***************************************************************************)
InRange(xs, lo, hi) == \A idx \in 1..Len(xs) : xs[idx] >= lo /\ xs[idx] <= hi

\* the call the caller kept was an encoding call f and this is the matching
\* decoding call on what f returned, with the same keys
IsRoundTrip(c, encoder, decoder) ==
    /\ call[c].pc = "done"
    /\ call[c].fn = decoder
    /\ prev[c].fn = encoder
    /\ Returned(prev[c])
    /\ call[c].groups = prev[c].result.value
    /\ call[c].key = prev[c].key
    /\ call[c].mask_key = prev[c].mask_key

\* C1: decrypt_from_groups applied to what encrypt_to_groups returned for a
\* text, with the same key and mask key, returns the sanitized text.
C1_RoundTrip ==
    \A c \in DOMAIN call :
        IsRoundTrip(c, "encrypt_to_groups", "decrypt_from_groups") =>
            /\ Returned(call[c])
            /\ call[c].result.value = sanitize_plaintext(prev[c].plaintext)

\* a round trip of a text with characters that are dropped, whose letter
\* count is not a multiple of 3 and needs two groups
C1_Witness ==
    \E c \in DOMAIN call :
        /\ IsRoundTrip(c, "encrypt_to_groups", "decrypt_from_groups")
        /\ Len(call[c].result.value) = 4
        /\ Len(prev[c].result.value) = 2
        /\ call[c].result.value # prev[c].plaintext

\* C2: decode_groups applied to what encode_groups returned for a sequence
\* of symbols in 0..25, with the same mask key, returns that sequence.
C2_PackerRoundTrip ==
    \A c \in DOMAIN call :
        (/\ IsRoundTrip(c, "encode_groups", "decode_groups")
         /\ InRange(prev[c].cipher_nums, 0, 25)) =>
            /\ Returned(call[c])
            /\ call[c].result.value = prev[c].cipher_nums

C2_Witness ==
    \E c \in DOMAIN call :
        /\ IsRoundTrip(c, "encode_groups", "decode_groups")
        /\ InRange(prev[c].cipher_nums, 0, 25)
        /\ Len(prev[c].cipher_nums) % 3 = 1
        /\ Len(prev[c].result.value) = 2
        /\ call[c].result.value = prev[c].cipher_nums

IsFiveDigits(g) == Len(g) = 5 /\ \A idx \in 1..Len(g) : g[idx] \in 48..57

\* C3: every group encode_groups has produced is exactly five decimal
\* digits, whatever the generator emits.
C3_GroupShape ==
    \A c \in DOMAIN call :
        call[c].fn \in {"encode_groups", "encrypt_to_groups"} =>
            \A idx \in 1..Len(call[c].groups) : IsFiveDigits(call[c].groups[idx])

\* the largest triplet met the largest offset: the group is "99999"
C3_Witness ==
    \E c \in DOMAIN call :
        /\ Returned(call[c])
        /\ call[c].fn = "encode_groups"
        /\ \E idx \in 1..Len(call[c].result.value) :
              call[c].result.value[idx] = <<57, 57, 57, 57, 57>>

\* C4: vigenere_decrypt undoes vigenere_encrypt under the same key; both
\* keep the length and stay within 0..25.
C4_VigenereRoundTrip ==
    \A c \in DOMAIN call :
        (/\ call[c].pc = "done"
         /\ call[c].fn = "vigenere_decrypt"
         /\ prev[c].fn = "vigenere_encrypt"
         /\ call[c].cipher_nums = prev[c].result.value
         /\ call[c].key_nums = prev[c].key_nums) =>
            /\ call[c].result.value = prev[c].plain
            /\ Len(prev[c].result.value) = Len(prev[c].plain)
            /\ Len(call[c].result.value) = Len(call[c].cipher_nums)
            /\ InRange(prev[c].result.value, 0, 25)
            /\ InRange(call[c].result.value, 0, 25)

\* a round trip where the key is shorter than the text and a sum wrapped
C4_Witness ==
    \E c \in DOMAIN call :
        /\ call[c].pc = "done"
        /\ call[c].fn = "vigenere_decrypt"
        /\ prev[c].fn = "vigenere_encrypt"
        /\ call[c].cipher_nums = prev[c].result.value
        /\ call[c].key_nums = prev[c].key_nums
        /\ Len(call[c].key_nums) < Len(prev[c].plain)
        /\ \E idx \in 1..Len(prev[c].plain) :
              prev[c].result.value[idx] < prev[c].plain[idx]

SameArguments(f, g) ==
    /\ f.fn = g.fn
    /\ f.plaintext = g.plaintext
    /\ f.key = g.key
    /\ f.mask_key = g.mask_key
    /\ IF f.fn \in {"decrypt_from_groups", "decode_groups"}
       THEN f.groups = g.groups
       ELSE IF f.fn = "encode_groups" THEN f.cipher_nums = g.cipher_nums
       ELSE TRUE

\* C5: a second call of encrypt_to_groups (or of encode_groups, or of a
\* decoding function) with the arguments of an earlier one finishes with
\* the same result.
C5_Determinism ==
    \A c \in DOMAIN call :
        (/\ call[c].pc = "done"
         /\ prev[c].pc = "done"
         /\ call[c].fn \in {"encrypt_to_groups", "decrypt_from_groups",
                            "encode_groups", "decode_groups"}
         /\ SameArguments(call[c], prev[c])) =>
            call[c].result = prev[c].result

\* encrypt_to_groups returned two groups, twice
C5_Witness ==
    \E c \in DOMAIN call :
        /\ Returned(call[c])
        /\ Returned(prev[c])
        /\ call[c].fn = "encrypt_to_groups"
        /\ SameArguments(call[c], prev[c])
        /\ Len(call[c].result.value) = 2

\* C6: what decrypt_from_groups returns is made of the letters A-Z only,
\* and what decode_groups returned (to it or to the caller) has no 26.
C6_LettersOnly ==
    \A c \in DOMAIN call :
        /\ (Returned(call[c]) /\ call[c].fn = "decrypt_from_groups") =>
              /\ InRange(call[c].result.value, 65, 90)
              /\ InRange(call[c].out, 0, 25)
        /\ (Returned(call[c]) /\ call[c].fn = "decode_groups") =>
              InRange(call[c].result.value, 0, 25)

\* decrypt_from_groups returned letters from groups that carried padding
C6_Witness ==
    \E c \in DOMAIN call :
        /\ Returned(call[c])
        /\ call[c].fn = "decrypt_from_groups"
        /\ Len(call[c].result.value) = 2
        /\ prev[c].fn = "encode_groups"
        /\ \E idx \in 1..Len(prev[c].nums) : prev[c].nums[idx] = 26

\* "1234a"
Token1234a == <<49, 50, 51, 52, 97>>

IsDecodingCallOf(f, groups) ==
    /\ f.pc = "done"
    /\ f.fn \in {"decrypt_from_groups", "decode_groups"}
    /\ f.groups = groups

\* C7 as stated: decoding ["1234a"] raises 'invalid group' with any key and
\* any mask key.
C7_AnyKeys ==
    \A c \in DOMAIN call :
        IsDecodingCallOf(call[c], <<Token1234a>>) =>
            Raised(call[c], InvalidGroup)

HasLetter(s) == \E idx \in 1..Len(s) : s[idx] \in (65..90) \cup (97..122)

\* C7 amended: decoding ["1234a"] raises 'invalid group' with any key and
\* any mask key that each contain at least one letter (decode_groups itself
\* takes any mask key).
C7_ValidKeys ==
    \A c \in DOMAIN call :
        (/\ IsDecodingCallOf(call[c], <<Token1234a>>)
         /\ call[c].fn = "decrypt_from_groups" =>
                HasLetter(call[c].key) /\ HasLetter(call[c].mask_key)) =>
            Raised(call[c], InvalidGroup)

C7_Witness ==
    \E c \in DOMAIN call :
        /\ IsDecodingCallOf(call[c], <<Token1234a>>)
        /\ call[c].fn = "decrypt_from_groups"
        /\ HasLetter(call[c].key)
        /\ HasLetter(call[c].mask_key)
        /\ call[c].key # call[c].mask_key
        /\ Raised(call[c], InvalidGroup)

(***************************************************************************)
(* Token classes, written from the grammar of decimal numerals and not     *)
(* from the parser of the model.                                           *)
(***************************************************************************)
IsBlankToken(g) == \A idx \in 1..Len(g) : g[idx] \in (9..13) \cup (28..32)

NumeralBody(g) ==
    LET t == strip(g)
    IN  IF t # <<>> /\ t[1] \in {43, 45} THEN Tail(t) ELSE t

\* an optional sign, then digits, single underscores between digits allowed
IsNumeral(g) ==
    LET b == NumeralBody(g)
    IN  /\ b # <<>>
        /\ \A idx \in 1..Len(b) :
              \/ b[idx] \in 48..57
              \/ /\ b[idx] = 95
                 /\ idx > 1
                 /\ idx < Len(b)
                 /\ b[idx - 1] \in 48..57
                 /\ b[idx + 1] \in 48..57

\* a numeral with a minus sign and a digit that is not 0
IsNegativeNumeral(g) ==
    /\ IsNumeral(g)
    /\ strip(g)[1] = 45
    /\ \E idx \in 1..Len(g) : g[idx] \in 49..57

\* caller c is at the head of the loop of decode_groups with a token left,
\* and takes the step that handles it
HandlesToken(c) ==
    /\ call[c].pc = "decode_loop"
    /\ call[c].pos <= Len(call[c].groups)
    /\ call'[c] # call[c]

\* C8 as stated: a token that is not blank and is not a non-negative decimal
\* integer makes decode_groups raise 'invalid group' and nothing else.
C8_NotNonNegative ==
    [][\A c \in DOMAIN call :
          (/\ HandlesToken(c)
           /\ ~IsBlankToken(call[c].groups[call[c].pos])
           /\ \/ ~IsNumeral(call[c].groups[call[c].pos])
              \/ IsNegativeNumeral(call[c].groups[call[c].pos])) =>
              Raised(call'[c], InvalidGroup)]_vars

\* C8 amended: a token that is not blank and is not a decimal numeral (a
\* letter, an embedded character that is not a digit) raises 'invalid group'
\* and nothing else; a numeral with a minus sign and a value that is not 0
\* is parsed and raises 'triplet out of range'.
C8_NotNumeral ==
    [][\A c \in DOMAIN call :
          /\ (/\ HandlesToken(c)
              /\ ~IsBlankToken(call[c].groups[call[c].pos])
              /\ ~IsNumeral(call[c].groups[call[c].pos])) =>
                 Raised(call'[c], InvalidGroup)
          /\ (/\ HandlesToken(c)
              /\ IsNegativeNumeral(call[c].groups[call[c].pos])) =>
                 Raised(call'[c], TripletOutOfRange)]_vars

\* the second token of a list does not parse (it has an embedded space) and
\* the call raised 'invalid group' there
C8_Witness ==
    \E c \in DOMAIN call :
        /\ Raised(call[c], InvalidGroup)
        /\ call[c].pos = 2
        /\ call[c].groups[2] = <<49, 50, 32, 51, 52>>

\* C9: when decode_groups has parsed a group, it raises 'triplet out of
\* range' if the value less the offset is outside 0..19682, and goes on to
\* the next group if it is inside.
C9_TripletRange ==
    [][\A c \in DOMAIN call :
          (/\ HandlesToken(c)
           /\ ~IsBlankToken(call[c].groups[call[c].pos])
           /\ IsNumeral(call[c].groups[call[c].pos])) =>
              LET gi  == int10(call[c].groups[call[c].pos]).val
                  off == WordMod(call'[c].prng, 80318)
              IN  IF gi - off < 0 \/ gi - off > 19682
                  THEN Raised(call'[c], TripletOutOfRange)
                  ELSE /\ call'[c].pc = "decode_loop"
                       /\ call'[c].pos = call[c].pos + 1
                       /\ Len(call'[c].out) = Len(call[c].out) + 3]_vars

\* a group one above the range (19683 after the offset is taken off) was
\* refused, after a group inside the range was taken
C9_Witness ==
    \E c \in DOMAIN call :
        /\ Raised(call[c], TripletOutOfRange)
        /\ call[c].pos = 2
        /\ int10(call[c].groups[2]).val - WordMod(call[c].prng, 80318) = 19683

\* what is left of a flat sequence when its trailing run of 26 is removed
RECURSIVE WithoutTrailingRun(_)
WithoutTrailingRun(xs) ==
    IF xs = <<>> THEN <<>>
    ELSE IF xs[Len(xs)] # 26 THEN xs
         ELSE WithoutTrailingRun([idx \in 1..(Len(xs) - 1) |-> xs[idx]])

\* C10: after the last group, decode_groups removes the trailing run of 26
\* only; it raises 'symbol out of range' if a 26 is left, and otherwise
\* returns what is left.
C10_TrailingOnly ==
    [][\A c \in DOMAIN call :
          (/\ call[c].pc = "decode_loop"
           /\ call[c].pos > Len(call[c].groups)
           /\ call'[c] # call[c]) =>
              LET kept == WithoutTrailingRun(call[c].out)
              IN  IF \E idx \in 1..Len(kept) : kept[idx] = 26
                  THEN Raised(call'[c], SymbolOutOfRange)
                  ELSE /\ Returned(call'[c])
                       /\ call'[c].out = kept
                       /\ call[c].fn = "decode_groups" =>
                              call'[c].result.value = kept]_vars

\* a sequence with a 26 inside and a trailing run of 26 was refused
C10_Witness ==
    \E c \in DOMAIN call :
        /\ Raised(call[c], SymbolOutOfRange)
        /\ Len(call[c].out) % 3 # 0
        /\ \E idx \in 1..Len(call[c].out) : call[c].out[idx] = 26


\* no local of the cipher or of the packer has been created: no symbols, no
\* generator, no group produced or consumed
NoCipherWork(f) ==
    /\ f.plain = <<>>
    /\ f.key_nums = <<>>
    /\ f.cipher_nums = <<>>
    /\ f.nums = <<>>
    /\ f.prng = {}
    /\ f.i = 0
    /\ f.pos = 1
    /\ f.out = <<>>
    /\ f.fn = "encrypt_to_groups" => f.groups = <<>>

\* C11: a call of encrypt_to_groups or decrypt_from_groups whose key or mask
\* key has no letter is, from its first state on, finished with the key
\* validation error and has done no cipher, packing or unpacking work,
\* whatever the group list holds.
C11_KeyErrorFirst ==
    \A c \in DOMAIN call :
        (/\ call[c].fn \in {"encrypt_to_groups", "decrypt_from_groups"}
         /\ ~HasLetter(call[c].key) \/ ~HasLetter(call[c].mask_key)) =>
            /\ Raised(call[c], KeyError)
            /\ NoCipherWork(call[c])

\* decrypt_from_groups with a mask key without letters and a group list
\* whose only token is not a numeral
C11_Witness ==
    \E c \in DOMAIN call :
        /\ call[c].fn = "decrypt_from_groups"
        /\ HasLetter(call[c].key)
        /\ ~HasLetter(call[c].mask_key)
        /\ call[c].groups = <<Token1234a>>
        /\ Raised(call[c], KeyError)


\* the caller kept an encrypt_to_groups call that returned, and this is the
\* finished decrypt_from_groups call on its groups with the same key and a
\* mask key that is not the one of the encryption
IsWrongMaskTrip(c) ==
    /\ call[c].pc = "done"
    /\ call[c].fn = "decrypt_from_groups"
    /\ prev[c].fn = "encrypt_to_groups"
    /\ Returned(prev[c])
    /\ call[c].groups = prev[c].result.value
    /\ call[c].key = prev[c].key
    /\ call[c].mask_key # prev[c].mask_key

IsDecodeError(f) ==
    \/ Raised(f, InvalidGroup)
    \/ Raised(f, TripletOutOfRange)
    \/ Raised(f, SymbolOutOfRange)

\* the state of the generator of a mask key after j outputs, and the offset
\* the j-th output gives
RECURSIVE GeneratorAfter(_, _)
GeneratorAfter(mask_key, j) ==
    IF j = 0 THEN xorshift32(seed32(sanitize_key(mask_key).k))
    ELSE xorshift32_next(GeneratorAfter(mask_key, j - 1))

OffsetOf(mask_key, j) == WordMod(GeneratorAfter(mask_key, j), 80318)

OffsetsDiffer(m1, m2, n) == \E j \in 1..n : OffsetOf(m1, j) # OffsetOf(m2, j)

IsKeyPair(c) ==
    /\ call[c].pc = "done"
    /\ call[c].fn = "vigenere_encrypt"
    /\ prev[c].fn = "vigenere_encrypt"
    /\ call[c].plain = prev[c].plain

\* the keys agree at every position the symbols use (0-based index i of the
\* code is position i + 1 here)
AgreeWhereUsed(k1, k2, n) ==
    \A i \in 0..(n - 1) : k1[(i % Len(k1)) + 1] = k2[(i % Len(k2)) + 1]

\* C13: two keys give the same cipher symbols for a symbol sequence exactly
\* when they agree at every key position the sequence uses.
C13_KeySensitivity ==
    \A c \in DOMAIN call :
        IsKeyPair(c) =>
            (call[c].result.value = prev[c].result.value
                <=> AgreeWhereUsed(prev[c].key_nums, call[c].key_nums, Len(call[c].plain)))

\* keys of different lengths that differ at their second position only:
\* two symbols are encrypted differently, and the first symbol the same
C13_Witness ==
    \E c \in DOMAIN call :
        /\ IsKeyPair(c)
        /\ Len(call[c].plain) = 2
        /\ Len(prev[c].key_nums) # Len(call[c].key_nums)
        /\ call[c].result.value # prev[c].result.value
        /\ call[c].result.value[1] = prev[c].result.value[1]


\* the activation a call ends in when every remaining step of it is taken
\* with no step of another call in between
RECURSIVE RunAlone(_)
RunAlone(f) ==
    IF f.pc = "encode_loop"
    THEN IF f.i < Len(f.nums) THEN RunAlone(encode_groups_body(f))
         ELSE Return(f, f.groups)
    ELSE IF f.pc = "decode_loop"
    THEN IF f.pos <= Len(f.groups) THEN RunAlone(decode_groups_body(f))
         ELSE IF f.fn = "decrypt_from_groups" THEN decrypt_from_groups_tail(f)
         ELSE decode_groups_tail(f)
    ELSE f

\* C14: wherever a call of encrypt_to_groups or decrypt_from_groups stands
\* while the steps of another call interleave with its own, it ends with the
\* result the same call gives when it runs alone from its start.
C14_Independent ==
    \A c \in DOMAIN call :
        call[c].fn \in {"encrypt_to_groups", "decrypt_from_groups"} =>
            RunAlone(call[c]).result = RunAlone(SameCall(call[c])).result

\* both callers are in the middle of a two-group message under the same
\* mask key: one has encoded its first group, the other has decoded its
\* first group
C14_Witness ==
    /\ call[1].pc = "encode_loop"
    /\ call[1].i = 3
    /\ Len(call[1].nums) = 6
    /\ call[2].pc = "decode_loop"
    /\ call[2].pos = 2
    /\ Len(call[2].groups) = 2
    /\ call[1].mk = call[2].mk


\* the letters one character of a text leaves in the result: an ASCII
\* letter leaves its capital
LeavesCapital(ch) ==
    /\ ch \in 65..90 => sanitize_plaintext(<<ch>>) = <<ch>>
    /\ ch \in 97..122 => sanitize_plaintext(<<ch>>) = <<ch - 32>>

RECURSIVE InOrder(_)
InOrder(text) ==
    IF text = <<>> THEN <<>>
    ELSE sanitize_plaintext(<<Head(text)>>) \o InOrder(Tail(text))

\* C15: sanitize_plaintext returns for every text; the result holds only
\* A-Z, it is what the characters of the text leave, in the order of the
\* text, and sanitizing it once more returns it unchanged.
C15_Sanitize ==
    \A c \in DOMAIN call :
        (call[c].pc = "done" /\ call[c].fn = "sanitize_plaintext") =>
            /\ Returned(call[c])
            /\ InRange(call[c].result.value, 65, 90)
            /\ call[c].result.value = InOrder(call[c].plaintext)
            /\ \A idx \in 1..Len(call[c].plaintext) :
                  LeavesCapital(call[c].plaintext[idx])
            /\ (prev[c].fn = "sanitize_plaintext"
                    /\ call[c].plaintext = prev[c].result.value) =>
                  call[c].result.value = call[c].plaintext

\* a text with a small letter, a dropped character and a capital gave two
\* different letters, and sanitizing them again returned them
C15_Witness ==
    \E c \in DOMAIN call :
        /\ call[c].pc = "done"
        /\ call[c].fn = "sanitize_plaintext"
        /\ prev[c].fn = "sanitize_plaintext"
        /\ prev[c].plaintext = <<97, 45, 90>>
        /\ call[c].plaintext = prev[c].result.value
        /\ call[c].result.value = <<65, 90>>


IsLiteralDigit(ch) == ch \in 48..57

LiteralDigits(text) == SelectSeq(text, IsLiteralDigit)

\* the text with "_" in the place of every literal digit: the same tokens,
\* none of them a literal digit
WithoutLiteralDigits(text) ==
    [idx \in 1..Len(text) |-> IF IsLiteralDigit(text[idx]) THEN 95 ELSE text[idx]]

IsParseCall(f) == f.pc = "done" /\ f.fn = "parse_groups_maybe_ru"

\* the call returned the literal digits of its text, all of them and in
\* their order, in groups of five
ReturnedLiteralDigits(f) ==
    /\ Returned(f)
    /\ \A idx \in 1..Len(f.result.value) : Len(f.result.value[idx]) = 5
    /\ Flatten(f.result.value) = LiteralDigits(f.text)

IsDecodeAfterGen(c) ==
    /\ call[c].pc = "done"
    /\ call[c].fn = "decode"
    /\ prev[c].fn = "gen"
    /\ Returned(prev[c])
    /\ call[c].key = prev[c].key
    /\ call[c].mask_key = prev[c].mask_key

\* C17: the decode command on the groups.txt of gen, the Russian digit
\* words, prints the sanitized text of gen, as it does on groups_raw.txt.
C17_AcceptsDigitWords ==
    \A c \in DOMAIN call :
        (IsDecodeAfterGen(c) /\ call[c].text = prev[c].groups_txt) =>
            /\ Returned(call[c])
            /\ call[c].result.value = sanitize_plaintext(prev[c].plaintext)


\* the caller kept a format_groups_ru call that returned, and this is the
\* finished parse_groups_maybe_ru call on the text it returned
IsRenderingTrip(c) ==
    /\ call[c].pc = "done"
    /\ call[c].fn = "parse_groups_maybe_ru"
    /\ prev[c].fn = "format_groups_ru"
    /\ Returned(prev[c])
    /\ call[c].text = prev[c].result.value

\* C18: parse_groups_maybe_ru applied to what format_groups_ru returned for
\* a list of at least one 5-digit group and per_line >= 1 returns that list.
C18_RenderingRoundTrip ==
    \A c \in DOMAIN call :
        (/\ IsRenderingTrip(c)
         /\ prev[c].groups # <<>>
         /\ prev[c].per_line >= 1
         /\ \A idx \in 1..Len(prev[c].groups) : IsFiveDigits(prev[c].groups[idx])) =>
            /\ Returned(call[c])
            /\ call[c].result.value = prev[c].groups

\* three groups that hold all ten digits, two to a line, came back from
\* their two lines of digit words
C18_Witness ==
    \E c \in DOMAIN call :
        /\ IsRenderingTrip(c)
        /\ prev[c].per_line = 2
        /\ Len(prev[c].groups) = 3
        /\ \A d \in 48..57 : \E idx \in 1..3, j \in 1..5 : prev[c].groups[idx][j] = d
        /\ \E idx \in 1..Len(call[c].text) : call[c].text[idx] = 10 /\ idx < Len(call[c].text)
        /\ Returned(call[c])
        /\ call[c].result.value = prev[c].groups


\* the caller kept a format_groups call or a gen command that returned, and
\* this is the finished parse_groups_text call on the text of format_groups
\* or on the groups_raw.txt of gen
IsTextTrip(c) ==
    /\ call[c].pc = "done"
    /\ call[c].fn = "parse_groups_text"
    /\ Returned(prev[c])
    /\ \/ /\ prev[c].fn = "format_groups"
          /\ prev[c].per_line >= 1
          /\ call[c].text = prev[c].result.value
       \/ /\ prev[c].fn = "gen"
          /\ call[c].text = prev[c].groups_raw_txt

\* the lines of a text that are not empty
LinesOf(text) == Runs(text, {idx \in 1..Len(text) : text[idx] # 10})

\* every line of a text holds at most n tokens
AtMostPerLine(text, n) ==
    \A idx \in 1..Len(LinesOf(text)) :
        Len(split_whitespace(LinesOf(text)[idx])) <= n

\* C19: parse_groups_text applied to what format_groups returned for a list
\* of 5-digit groups and per_line >= 1, or to the groups_raw.txt gen wrote
\* for its groups, returns that list; no line of format_groups holds more
\* than per_line groups.
C19_RawRoundTrip ==
    \A c \in DOMAIN call :
        /\ (/\ IsTextTrip(c)
            /\ \A idx \in 1..Len(prev[c].groups) : IsFiveDigits(prev[c].groups[idx])) =>
               /\ Returned(call[c])
               /\ call[c].result.value = prev[c].groups
        /\ \A f \in {call[c], prev[c]} :
               (Returned(f) /\ f.fn = "format_groups" /\ f.per_line >= 1) =>
                   AtMostPerLine(f.result.value, f.per_line)

\* three groups, two to a line: the text has a second, shorter line, and
\* the three groups came back
C19_Witness ==
    \E c \in DOMAIN call :
        /\ IsTextTrip(c)
        /\ prev[c].fn = "format_groups"
        /\ prev[c].per_line = 2
        /\ Len(prev[c].groups) = 3
        /\ Len(LinesOf(call[c].text)) = 2
        /\ Returned(call[c])
        /\ call[c].result.value = prev[c].groups


\* C20: a gen or decode command without --mask-key seeds its generator
\* from the letters of --key, and decode without --mask-key on the
\* groups_raw.txt of a gen without --mask-key and with the same --key
\* prints the sanitized text of gen.
C20_MaskDefaultsToKey ==
    \A c \in DOMAIN call :
        /\ (/\ call[c].fn \in {"gen", "decode"}
            /\ call[c].mask_key = None
            /\ call[c].pc \in {"encode_loop", "decode_loop"}) =>
               /\ call[c].mk = sanitize_key(call[c].key).k
               /\ call[c].prng = xorshift32(seed32(sanitize_key(call[c].key).k))
                     \/ call[c].i > 0 \/ call[c].pos > 1
        /\ (/\ IsDecodeAfterGen(c)
            /\ call[c].mask_key = None
            /\ call[c].text = prev[c].groups_raw_txt) =>
               /\ Returned(call[c])
               /\ call[c].result.value = sanitize_plaintext(prev[c].plaintext)

\* gen with --key Bz alone wrote two groups, and decode with --key Bz alone
\* printed the four letters of the text
C20_Witness ==
    \E c \in DOMAIN call :
        /\ IsDecodeAfterGen(c)
        /\ call[c].mask_key = None
        /\ call[c].key = <<66, 122>>
        /\ call[c].text = prev[c].groups_raw_txt
        /\ Len(prev[c].result.value) = 2
        /\ Returned(call[c])
        /\ Len(call[c].result.value) = 4


\* a word modulo 80318, from bit i down to bit 0
RECURSIVE Mod80318(_, _, _)
Mod80318(x, i, acc) ==
    IF i < 0 THEN acc
    ELSE Mod80318(x, i - 1, (2 * acc + (IF i \in x THEN 1 ELSE 0)) % 80318)

(***************************************************************************)
(* The offset the generator of an activation gave last, and the value a    *)
(* group carries once that offset is taken off.                            *)
(***************************************************************************)
LastOffset(f) == Mod80318(f.prng, 31, 0)

Unmasked(f, g) == int10(g).val - LastOffset(f)

\* the loop of encode_groups has just packed a triplet
HasPacked(f) == f.fn = "encode_groups" /\ f.pc = "encode_loop" /\ f.i > 0

\* the loop of decode_groups has just unpacked a group
HasUnpacked(f) ==
    /\ f.fn = "decode_groups" /\ f.pc = "decode_loop" /\ f.pos > 1
    /\ strip(f.groups[f.pos - 1]) # <<>>

(***************************************************************************)
(* C21: packing is a bijection.  Whenever encode_groups has packed a       *)
(* triplet (a, b, c) of values 0..26, the packed value N is                *)
(* a*729 + b*27 + c, lies in 0..19682, and                                 *)
(* (N div 729, (N div 27) mod 27, N mod 27) is (a, b, c); whenever         *)
(* decode_groups has unpacked a value N of 0..19682, the three components  *)
(* are in 0..26 and pack to N again.                                       *)
(***************************************************************************)
C21_PackingBijection ==
    \A c \in DOMAIN call :
        LET f == call[c]
        IN  /\ HasPacked(f) =>
                LET t == SubSeq(f.nums, f.i - 2, f.i)
                    N == Unmasked(f, f.groups[Len(f.groups)])
                IN  InRange(t, 0, 26) =>
                        /\ N = t[1] * 729 + t[2] * 27 + t[3]
                        /\ N \in 0..19682
                        /\ <<N \div 729, (N \div 27) % 27, N % 27>> = t
            /\ HasUnpacked(f) =>
                LET N == Unmasked(f, f.groups[f.pos - 1])
                    t == SubSeq(f.out, Len(f.out) - 2, Len(f.out))
                IN  /\ N \in 0..19682
                    /\ InRange(t, 0, 26)
                    /\ t[1] * 729 + t[2] * 27 + t[3] = N

\* the largest value, 19682, has been packed from (26, 26, 26) and unpacked
\* to it again
C21_Witness ==
    \E c \in DOMAIN call :
        /\ HasUnpacked(call[c])
        /\ Unmasked(call[c], call[c].groups[1]) = 19682
        /\ call[c].out = <<26, 26, 26>>
        /\ prev[c].nums = <<26, 26, 26>>


(***************************************************************************)
(* The non-blank tokens of a group list, in order, and the triplets        *)
(* decode_groups unpacks from the first n of them under a mask key.        *)
(***************************************************************************)
NonBlank(groups) == SelectSeq(groups, LAMBDA g : ~IsBlankToken(g))

\* the first n states of a generator after the state x, and the first n
\* offsets the generator of a sanitized mask key gives
RECURSIVE GeneratorTrace(_, _)
GeneratorTrace(x, n) ==
    IF n = 0 THEN <<>>
    ELSE LET y == xorshift32_next(x)
         IN  <<y>> \o GeneratorTrace(y, n - 1)

GeneratorStart(mask_key) == And(seed32(mask_key), MASK32)

Offsets(mask_key, n) ==
    LET trace == GeneratorTrace(GeneratorStart(mask_key), n)
    IN  [j \in 1..n |-> Mod80318(trace[j], 31, 0)]

RECURSIVE UnpackedUpTo(_, _, _)
UnpackedUpTo(tokens, offsets, n) ==
    IF n = 0 THEN <<>>
    ELSE UnpackedUpTo(tokens, offsets, n - 1)
            \o unpack(int10(tokens[n]).val - offsets[n])

\* two finished decode_groups calls under one mask key whose group lists
\* differ in blank tokens only
IsBlankTrip(c) ==
    /\ call[c].pc = "done" /\ call[c].fn = "decode_groups"
    /\ prev[c].pc = "done" /\ prev[c].fn = "decode_groups"
    /\ call[c].mask_key = prev[c].mask_key
    /\ call[c].groups # prev[c].groups
    /\ NonBlank(call[c].groups) = NonBlank(prev[c].groups)

\* what a finished call reports: its result, and the group it stopped at
\* when the loop raised
Outcome(f) ==
    <<f.result,
      IF f.result.kind = "raise" /\ f.pos <= Len(f.groups)
      THEN f.groups[f.pos] ELSE <<>>>>

(***************************************************************************)
(* C22: offset alignment.  The j-th group of encode_groups is the j-th     *)
(* packed triplet plus the j-th output of the generator of the mask key    *)
(* modulo 80318, an offset in 0..80317.  decode_groups has drawn as many   *)
(* outputs as it met non-blank groups and has unpacked the j-th non-blank  *)
(* group with the j-th offset.  A group list with blank tokens put in      *)
(* decodes to the same result as the list without them.                    *)
(***************************************************************************)
C22_OffsetAlignment ==
    \A c \in DOMAIN call :
        LET f == call[c]
        IN  /\ (f.fn = "encode_groups" /\ f.pc \in {"encode_loop", "done"}) =>
                LET trace   == GeneratorTrace(GeneratorStart(f.mask_key), Len(f.groups))
                    offsets == Offsets(f.mask_key, Len(f.groups))
                IN  /\ f.prng = IF Len(f.groups) = 0 THEN GeneratorStart(f.mask_key)
                                ELSE trace[Len(f.groups)]
                    /\ \A j \in 1..Len(f.groups) :
                          /\ offsets[j] \in 0..80317
                          /\ int10(f.groups[j]).val =
                                f.nums[3 * j - 2] * 729 + f.nums[3 * j - 1] * 27
                                    + f.nums[3 * j] + offsets[j]
            /\ (f.fn = "decode_groups" /\ f.pc = "decode_loop") =>
                LET seen    == NonBlank(SubSeq(f.groups, 1, f.pos - 1))
                    trace   == GeneratorTrace(GeneratorStart(f.mask_key), Len(seen))
                    offsets == Offsets(f.mask_key, Len(seen))
                IN  /\ f.prng = IF Len(seen) = 0 THEN GeneratorStart(f.mask_key)
                                ELSE trace[Len(seen)]
                    /\ f.out = UnpackedUpTo(seen, offsets, Len(seen))
            /\ IsBlankTrip(c) => Outcome(call[c]) = Outcome(prev[c])

\* a list of two groups has been decoded, and once more with a blank token
\* between the two
C22_Witness ==
    \E c \in DOMAIN call :
        /\ IsBlankTrip(c)
        /\ Returned(call[c])
        /\ Len(prev[c].groups) = 2
        /\ Len(call[c].groups) = 3
        /\ IsBlankToken(call[c].groups[2])
        /\ Len(call[c].result.value) > 3


(***************************************************************************)
(* The mask key decode_groups was given in an activation, and what is      *)
(* wrong with the group at place p of its list: nothing, or the error the  *)
(* loop raises for it when it gets there.                                  *)
(***************************************************************************)
DecodingMask(f) == IF f.fn = "decode_groups" THEN f.mask_key ELSE f.mk

Faults(f) ==
    LET offsets == Offsets(DecodingMask(f), Len(NonBlank(f.groups)))
    IN  [p \in 1..Len(f.groups) |->
            LET g == f.groups[p]
                j == Len(NonBlank(SubSeq(f.groups, 1, p)))
                n == int10(g).val - offsets[j]
            IN  IF IsBlankToken(g) THEN ""
                ELSE IF ~IsNumeral(g) THEN InvalidGroup
                ELSE IF n < 0 \/ n > 19682 THEN TripletOutOfRange
                ELSE ""]

\* decode_groups has run in the activation and has finished
HasDecoded(f) ==
    /\ f.pc = "done"
    /\ f.fn \in {"decode_groups", "decrypt_from_groups"}
    /\ ~Raised(f, KeyError)

(***************************************************************************)
(* C23: a failing decode surfaces one error and no partial result.  When   *)
(* some group of the list fails to parse or fails the range check,         *)
(* decode_groups raises at the first such group in list order, with that   *)
(* group's error, whatever the later groups are, and returns nothing; the  *)
(* "symbol out of range" error is raised only when no group of the list    *)
(* fails in either way.                                                    *)
(***************************************************************************)
C23_FirstErrorOnly ==
    \A c \in DOMAIN call :
        LET f      == call[c]
            faults == Faults(f)
            faulty == { p \in 1..Len(f.groups) : faults[p] # "" }
        IN  HasDecoded(f) =>
                /\ f.result.kind = "raise" => f.result.value = <<>>
                /\ faulty # {} =>
                      LET p == CHOOSE q \in faulty : \A r \in faulty : q <= r
                      IN  /\ Raised(f, faults[p])
                          /\ f.pos = p
                /\ faulty = {} =>
                      \/ Returned(f)
                      \/ Raised(f, SymbolOutOfRange)
                /\ Raised(f, SymbolOutOfRange) => faulty = {}

\* the first group fails the range check and the second does not parse:
\* the error is the one of the first
C23_Witness ==
    \E c \in DOMAIN call :
        /\ HasDecoded(call[c])
        /\ Len(call[c].groups) = 2
        /\ Faults(call[c])[1] = TripletOutOfRange
        /\ Faults(call[c])[2] = InvalidGroup
        /\ Raised(call[c], TripletOutOfRange)


(***************************************************************************)
(* The value a generator yields at place n, from its seed alone.           *)
(***************************************************************************)
RECURSIVE NthValue(_, _)
NthValue(seed, n) ==
    IF n = 0 THEN And(seed, MASK32)
    ELSE xorshift32_next(NthValue(seed, n - 1))

IsGenerator(f) == f.fn = "xorshift32" /\ f.pc = "suspended"

(***************************************************************************)
(* C24: two generators started from the same seed have yielded the same    *)
(* value at every place both have reached; the value at place n is a       *)
(* function of the seed and n; and a step of one generator leaves the      *)
(* other generator as it was.                                              *)
(***************************************************************************)
C24_Lockstep ==
    [][\A c \in DOMAIN call, d \in DOMAIN call :
          LET f == call'[c]
              g == call'[d]
          IN  /\ (c # d /\ call'[c] # call[c]) => call'[d] = call[d]
              /\ IsGenerator(f) =>
                    \A n \in 1..Len(f.out) : f.out[n] = NthValue(f.seed, n)
              /\ (IsGenerator(f) /\ IsGenerator(g) /\ f.seed = g.seed) =>
                    \A n \in 1..Len(f.out) :
                        n <= Len(g.out) => f.out[n] = g.out[n]]_vars

\* two generators of one seed, one drawn from twice and the other three
\* times
C24_Witness ==
    /\ IsGenerator(call[1])
    /\ IsGenerator(call[2])
    /\ call[1].seed = call[2].seed
    /\ Len(call[1].out) = 2
    /\ Len(call[2].out) = 3


(***************************************************************************)
(* The advance rule, bit by bit, on a word of 32 bits: bit i of x << 13 is *)
(* bit i - 13 of x, bit i of x >> 17 is bit i + 17 of x, and what a left   *)
(* shift moves past bit 31 is cut off.                                     *)
(***************************************************************************)
AdvanceRule(x) ==
    LET x1 == {i \in 0..31 : (i \in x) # (i - 13 \in x)}
        x2 == {i \in 0..31 : (i \in x1) # (i + 17 \in x1)}
        x3 == {i \in 0..31 : (i \in x2) # (i - 5 \in x2)}
    IN  x3

\* the state a generator starts from: the low 32 bits of its seed
SeedState(f) == {i \in f.seed : i <= 31}

(***************************************************************************)
(* C25: xorshift32 applies the advance rule before every output, the first *)
(* included.  The first value yielded is the seed state advanced once, and *)
(* each later value is the value before it advanced once; no value is a    *)
(* state yielded without the advance, so the first value differs from the  *)
(* seed state whenever that state is not 0 (the rule takes 0 to 0).  Every *)
(* value yielded is a word of 32 bits, a number of 0..2^32 - 1.            *)
(***************************************************************************)
C25_AdvanceBeforeOutput ==
    \A c \in DOMAIN call :
        LET f == call[c]
        IN  IsGenerator(f) =>
                \A n \in 1..Len(f.out) :
                    /\ f.out[n] \subseteq 0..31
                    /\ f.out[n] = AdvanceRule(IF n = 1 THEN SeedState(f) ELSE f.out[n - 1])
                    /\ (n = 1 /\ SeedState(f) # {}) => f.out[n] # SeedState(f)

\* a generator whose seed is wider than 32 bits has yielded three values
C25_Witness ==
    \E c \in DOMAIN call :
        /\ IsGenerator(call[c])
        /\ call[c].seed = {0, 32}
        /\ Len(call[c].out) = 3
        /\ call[c].out[1] # {}


\* encode_groups has padded its argument in the activation
HasPadded(f) ==
    /\ f.fn \in {"encode_groups", "encrypt_to_groups", "gen"}
    /\ \/ f.pc = "encode_loop"
       \/ f.pc = "done" /\ ~Raised(f, KeyError)

(***************************************************************************)
(* C26: group count and padding.  For n symbols encode_groups works on the *)
(* n symbols followed by 0, 1 or 2 sentinels, 3 * ceil(n/3) values in all, *)
(* and returns ceil(n/3) groups, none for n = 0; encrypt_to_groups returns *)
(* ceil(n/3) groups for a text of n sanitized letters.  When the symbols   *)
(* are letters (0..25), no triplet but the last holds a sentinel.          *)
(* decode_groups returns the empty list for the empty group list, and      *)
(* decrypt_from_groups the empty string.                                   *)
(***************************************************************************)
C26_GroupCount ==
    \A c \in DOMAIN call :
        LET f    == call[c]
            n    == Len(f.cipher_nums)
            ceil == (n + 2) \div 3
        IN  /\ HasPadded(f) =>
                /\ Len(f.nums) = 3 * ceil
                /\ Len(f.nums) - n \in {0, 1, 2}
                /\ SubSeq(f.nums, 1, n) = f.cipher_nums
                /\ \A idx \in (n + 1)..Len(f.nums) : f.nums[idx] = 26
                /\ InRange(f.cipher_nums, 0, 25) =>
                      \A idx \in 1..(Len(f.nums) - 3) : f.nums[idx] # 26
                /\ f.pc = "done" => Len(f.groups) = ceil
                /\ (Returned(f) /\ f.fn # "gen") =>
                      /\ Len(f.result.value) = ceil
                      /\ n = 0 => f.result.value = <<>>
                /\ f.fn # "encode_groups" =>
                      n = Len(sanitize_plaintext(f.plaintext))
            /\ (HasDecoded(f) /\ f.groups = <<>>) =>
                /\ Returned(f)
                /\ f.result.value = <<>>

\* a text of four letters has been encrypted to two groups, the second
\* made of one letter and two sentinels
C26_Witness ==
    \E c \in DOMAIN call :
        /\ Returned(call[c])
        /\ call[c].fn = "encrypt_to_groups"
        /\ Len(sanitize_plaintext(call[c].plaintext)) = 4
        /\ Len(call[c].result.value) = 2
        /\ SubSeq(call[c].nums, 5, 6) = <<26, 26>>


(***************************************************************************)
(* The letters of a key of Latin letters, digits and punctuation: each     *)
(* letter as a capital, everything else left out.                          *)
(***************************************************************************)
KeyLetters(key) ==
    LET letters == SelectSeq(key, LAMBDA ch : ch \in (65..90) \cup (97..122))
    IN  [idx \in 1..Len(letters) |->
            IF letters[idx] >= 97 THEN letters[idx] - 32 ELSE letters[idx]]

\* two finished calls of one facade function on the same text or groups
\* whose keys have the same letters and whose mask keys have the same
\* letters, at least one of the two written differently
IsRespelledPair(c) ==
    /\ call[c].pc = "done" /\ prev[c].pc = "done"
    /\ call[c].fn \in {"encrypt_to_groups", "decrypt_from_groups"}
    /\ prev[c].fn = call[c].fn
    /\ call[c].plaintext = prev[c].plaintext
    /\ call[c].groups = prev[c].groups \/ call[c].fn = "encrypt_to_groups"
    /\ <<call[c].key, call[c].mask_key>> # <<prev[c].key, prev[c].mask_key>>
    /\ KeyLetters(call[c].key) = KeyLetters(prev[c].key)
    /\ KeyLetters(call[c].mask_key) = KeyLetters(prev[c].mask_key)

(***************************************************************************)
(* C27: keys are compared after sanitization.  Two calls of                *)
(* encrypt_to_groups on one text, or of decrypt_from_groups on one group   *)
(* list, whose keys sanitize to the same letters and whose mask keys       *)
(* sanitize to the same letters, finish in the same way: the same value    *)
(* returned or the same error raised.                                      *)
(***************************************************************************)
C27_KeysAfterSanitization ==
    \A c \in DOMAIN call :
        IsRespelledPair(c) =>
            /\ sanitize_key(call[c].key) = sanitize_key(prev[c].key)
            /\ sanitize_key(call[c].mask_key) = sanitize_key(prev[c].mask_key)
            /\ call[c].result = prev[c].result

\* four letters encrypted under key "zB" and mask key "b", and once more
\* under key "Z b" and mask key "B"
C27_Witness ==
    \E c \in DOMAIN call :
        /\ IsRespelledPair(c)
        /\ Returned(call[c])
        /\ call[c].fn = "encrypt_to_groups"
        /\ Len(call[c].result.value) = 2
        /\ prev[c].key = <<122, 66>> /\ call[c].key = <<90, 32, 98>>
        /\ prev[c].mask_key = <<98>> /\ call[c].mask_key = <<66>>


\* the gen command has finished and encrypt_to_groups had accepted its keys
GenAccepted(f) == f.fn = "gen" /\ f.pc = "done" /\ ~Raised(f, KeyError)

(***************************************************************************)
(* C28: in the gen command, whenever encrypt_to_groups has accepted the    *)
(* key, codewords_from_key(key) has returned one codeword for each letter  *)
(* of sanitize_key(key), in the order of the letters, a list that is not   *)
(* empty; the "Failed to derive Russian codewords" error is never raised.  *)
(***************************************************************************)
C28_CodewordsPerLetter ==
    \A c \in DOMAIN call :
        LET f == call[c]
            k == sanitize_key(f.key).k
        IN  /\ ~Raised(f, NoCodewords)
            /\ GenAccepted(f) =>
                /\ Len(f.effective_names) = Len(k)
                /\ Len(f.effective_names) >= 1
                /\ \A idx \in 1..Len(k) :
                      f.effective_names[idx] = RU_CODEWORDS[k[idx]]

\* gen with the key " z1B" has derived the codewords of Z and of B
C28_Witness ==
    \E c \in DOMAIN call :
        /\ GenAccepted(call[c])
        /\ Returned(call[c])
        /\ call[c].key = <<32, 122, 49, 66>>
        /\ call[c].effective_names = <<RU_CODEWORDS[90], RU_CODEWORDS[66]>>
        /\ RU_CODEWORDS[90] # RU_CODEWORDS[66]


\* every group of the list from place p on carries the value 19682 once
\* the offset of its place among the non-blank groups is taken off
AllSentinelFrom(f, p) ==
    LET offsets == Offsets(f.mask_key, Len(NonBlank(f.groups)))
    IN  \A q \in p..Len(f.groups) :
            LET j == Len(NonBlank(SubSeq(f.groups, 1, q)))
            IN  /\ IsNumeral(f.groups[q])
                /\ int10(f.groups[q]).val - offsets[j] = 19682

\* two finished decode_groups calls under one mask key, the first returned,
\* the group list of the second being that of the first with groups of
\* sentinels appended
IsExtendedTrip(c) ==
    /\ call[c].pc = "done" /\ call[c].fn = "decode_groups"
    /\ Returned(prev[c]) /\ prev[c].fn = "decode_groups"
    /\ call[c].mask_key = prev[c].mask_key
    /\ Len(call[c].groups) > Len(prev[c].groups)
    /\ SubSeq(call[c].groups, 1, Len(prev[c].groups)) = prev[c].groups
    /\ AllSentinelFrom(call[c], Len(prev[c].groups) + 1)

(***************************************************************************)
(* C29: decoding is not injective on group lists.  When a group list       *)
(* decodes successfully, the list with further groups appended whose       *)
(* unmasked value is 19682, at the offsets of their places, decodes to the *)
(* same symbols: decode_groups removes a trailing run of sentinels of any  *)
(* length.                                                                 *)
(***************************************************************************)
C29_SentinelGroupsIgnored ==
    \A c \in DOMAIN call :
        IsExtendedTrip(c) =>
            /\ Returned(call[c])
            /\ call[c].result.value = prev[c].result.value

\* a list of one group that decodes to two symbols and the list of three
\* groups made from it decode to the same two symbols
C29_Witness ==
    \E c \in DOMAIN call :
        /\ IsExtendedTrip(c)
        /\ Len(prev[c].groups) = 1
        /\ Len(call[c].groups) = 3
        /\ Returned(call[c])
        /\ Len(call[c].result.value) = 2

=============================================================================
